---- MODULE Spec2Model ----
(***************************************************************************)
(* Risk / suitability scoring engine of hazard_maps (views.py) and the     *)
(* facility cache shared by get_location_hazards and get_nearby_facilities.*)
(*                                                                         *)
(* Numbers.  The code computes in floating point and rounds what it        *)
(* returns to one decimal.  Here a score is an exact fraction <<n, d>>     *)
(* (d > 0) and a returned score is an integer number of tenths, rounded    *)
(* half-to-even as Python's round() does.  Weights are kept in hundredths  *)
(* (0.6 -> 60).                                                            *)
(***************************************************************************)
EXTENDS Integers, Sequences, FiniteSets, TLC

VARIABLES
    flood_level,          \* argument of calculate_risk_score
    landslide_level,      \* argument of calculate_risk_score
    liquefaction_level,   \* argument of calculate_risk_score
    nearby_facilities,    \* argument of calculate_suitability_score
    risk,                 \* value returned by calculate_risk_score, or NoResult
    risk_locals,          \* local variables of calculate_risk_score at its return
    suit,                 \* value returned by calculate_suitability_score, or NoResult
    suit_locals,          \* local variables of calculate_suitability_score at its return
    prev_risk,            \* flood level and score of the previous call of calculate_risk_score
    prev_suit,            \* risk and suitability scores of the previous call of calculate_suitability_score
    recommendations,      \* value returned by generate_smart_recommendations, or NoResult
    pc,                   \* position of the scoring pipeline
    osm_data,             \* the facility data of the discovery service around the requests
    hazard_store,         \* the hazard layers whose point-in-polygon lookup fails
    overpass,             \* the answers of the discovery service to the next POSTs of one query
    cache,                \* django cache: key -> stored value, NoneRec when absent
    written,              \* per cache key, the values cache.set has stored so far
    requests              \* the requests received: operation, arguments, position, response

score_vars == <<flood_level, landslide_level, liquefaction_level, nearby_facilities,
                risk, risk_locals, suit, suit_locals, prev_risk, prev_suit, recommendations, pc>>

env_vars == <<osm_data, hazard_store, overpass>>

cache_vars == <<env_vars, cache, written, requests>>

vars == <<score_vars, cache_vars>>

NoResult == [none |-> TRUE]

(***************************************************************************)
(* Exact fractions <<n, d>>, d > 0, n >= 0.                                *)
(***************************************************************************)
RECURSIVE Gcd(_, _)
Gcd(a, b) == IF b = 0 THEN a ELSE Gcd(b, a % b)
FracNorm(x) == LET g == Gcd(x[1], x[2]) IN <<x[1] \div g, x[2] \div g>>
FracLt(a, b) == a[1] * b[2] < b[1] * a[2]
FracLe(a, b) == a[1] * b[2] <= b[1] * a[2]
FracEq(a, b) == a[1] * b[2] = b[1] * a[2]
FracMin(a, b) == IF FracLe(a, b) THEN a ELSE b
FracMax(a, b) == IF FracLe(a, b) THEN b ELSE a
FracMul(a, b) == FracNorm(<<a[1] * b[1], a[2] * b[2]>>)
FracAdd(a, b) == FracNorm(<<a[1] * b[2] + b[1] * a[2], a[2] * b[2]>>)
FracInt(k) == <<k, 1>>

\* round(x, 1) of a non-negative fraction, in tenths; ties go to the even digit
Round1(x) ==
    LET n == 10 * x[1]
        q == n \div x[2]
        r == n % x[2]
    IN  IF 2 * r > x[2] THEN q + 1
        ELSE IF 2 * r = x[2] THEN q + (q % 2)
        ELSE q

(***************************************************************************)
(* Hazard levels.  None is the absence of a polygon at the point.          *)
(***************************************************************************)
None == "None"
FloodLevels == {None, "LS", "MS", "HS", "VHS"}
LandslideLevels == {None, "LS", "MS", "HS", "VHS", "DF"}
LiquefactionLevels == {None, "LS", "MS", "HS"}

\* Python truthiness of a level: None and the empty string are false
Truthy(level) == level # None /\ level # ""

(***************************************************************************)
(* generate_smart_recommendations.  The details are the sequence of the     *)
(* headings of the blocks appended to rec_html.                            *)
(***************************************************************************)
\* mutant: debris flow not counted as a high landslide risk
high_risks_no_df(flood, landslide, liquefaction) ==
    (IF flood \in {"HS", "VHS"} THEN <<"flood">> ELSE <<>>)
      \o (IF landslide \in {"HS", "VHS"} THEN <<"landslide">> ELSE <<>>)
      \o (IF liquefaction \in {"HS"} THEN <<"liquefaction">> ELSE <<>>)

\* mutant: liquefaction left out of the high risks
high_risks_no_liquefaction(flood, landslide, liquefaction) ==
    (IF flood \in {"HS", "VHS"} THEN <<"flood">> ELSE <<>>)
      \o (IF landslide \in {"HS", "VHS", "DF"} THEN <<"landslide">> ELSE <<>>)

\* lines 954-962
high_risks(flood, landslide, liquefaction) ==
    (IF flood \in {"HS", "VHS"} THEN <<"flood">> ELSE <<>>)
      \o (IF landslide \in {"HS", "VHS", "DF"} THEN <<"landslide">> ELSE <<>>)
      \o (IF liquefaction \in {"HS"} THEN <<"liquefaction">> ELSE <<>>)

InSeq(x, seq) == \E i \in 1..Len(seq) : seq[i] = x

\* ' + '.join(parts)
RECURSIVE Join(_, _)
Join(sep, parts) ==
    IF parts = <<>> THEN ""
    ELSE IF Len(parts) = 1 THEN parts[1]
    ELSE parts[1] \o sep \o Join(sep, Tail(parts))

\* the locals of generate_smart_recommendations on the high-risk path
\* (lines 1005-1202)
recommendation_locals(flood, landslide, liquefaction) ==
    LET hr == high_risks(flood, landslide, liquefaction)
        flood_parts ==
            IF InSeq("flood", hr)
            THEN IF flood = "VHS" THEN <<"VERY HIGH FLOOD RISK">> ELSE <<"HIGH FLOOD RISK">>
            ELSE <<>>
        landslide_parts ==
            IF InSeq("landslide", hr)
            THEN IF landslide = "DF" THEN <<"DEBRIS FLOW ZONE">>
                 ELSE IF landslide = "VHS" THEN <<"VERY HIGH LANDSLIDE RISK">>
                 ELSE <<"HIGH LANDSLIDE RISK">>
            ELSE <<>>
        landslide_blocks ==
            IF InSeq("landslide", hr)
            THEN IF landslide = "DF" THEN <<"DEBRIS FLOW HAZARD ZONE">>
                 ELSE IF landslide = "VHS" THEN <<"VERY HIGH LANDSLIDE RISK">>
                 ELSE <<"HIGH LANDSLIDE RISK">>
            ELSE <<>>
        liquefaction_parts ==
            IF InSeq("liquefaction", hr) THEN <<"HIGH LIQUEFACTION RISK">> ELSE <<>>
        multiple == IF Len(hr) >= 2 THEN <<"MULTIPLE HAZARD EXPOSURE">> ELSE <<>>
    IN  [high_risks |-> hr,
         rec_summary_parts |-> flood_parts \o landslide_parts \o liquefaction_parts,
         rec_html |-> flood_parts \o landslide_blocks \o liquefaction_parts \o multiple]

generate_smart_recommendations(flood, landslide, liquefaction) ==
    LET locals == recommendation_locals(flood, landslide, liquefaction)
    IN  IF locals.high_risks = <<>>
        THEN IF flood = "MS" \/ landslide = "MS" \/ liquefaction = "MS"
             THEN [type |-> "dict",
                   summary |-> "Standard building codes with enhanced precautions",
                   details |-> <<"standard precautions">>]
             ELSE [type |-> "dict",
                   summary |-> "Low risk - Standard construction practices",
                   details |-> <<"minimal disaster exposure">>]
        ELSE [type |-> "dict",
              summary |-> IF locals.rec_summary_parts # <<>>
                          THEN Join(" + ", locals.rec_summary_parts) ELSE "Low Risk",
              details |-> locals.rec_html]

\* generate_debris_flow_critical_warning(): the summary and the block headings
generate_debris_flow_critical_warning ==
    [type |-> "dict",
     summary |-> "DEBRIS FLOW ZONE - No Construction Allowed",
     details |-> <<"CRITICAL HAZARD ZONE", "What is a Debris Flow?", "PHIVOLCS DIRECTIVE",
                   "Required Actions:">>]

(***************************************************************************)
(* calculate_risk_score                                                    *)
(***************************************************************************)
\* mutant: the MS and HS entries of the table exchanged
SEVERITY_SCORES_swapped(level) ==
    CASE level = None -> 0
      [] level = "LS" -> 20
      [] level = "MS" -> 70
      [] level = "HS" -> 40
      [] level = "VHS" -> 100
      [] OTHER -> 0

SEVERITY_SCORES(level) ==
    CASE level = None -> 0
      [] level = "LS" -> 20
      [] level = "MS" -> 40
      [] level = "HS" -> 70
      [] level = "VHS" -> 100
      [] OTHER -> 0

flood_weight == 60
landslide_weight == 25
liquefaction_weight == 15

weighted_score(f, l, q) ==
    (IF Truthy(f) THEN SEVERITY_SCORES(f) * flood_weight ELSE 0)
  + (IF Truthy(l) THEN SEVERITY_SCORES(l) * landslide_weight ELSE 0)
  + (IF Truthy(q) THEN SEVERITY_SCORES(q) * liquefaction_weight ELSE 0)

\* mutant: static weights, absent hazards counted in the normalisation
total_weight_static(f, l, q) == flood_weight + landslide_weight + liquefaction_weight

total_weight(f, l, q) ==
    (IF Truthy(f) THEN flood_weight ELSE 0)
  + (IF Truthy(l) THEN landslide_weight ELSE 0)
  + (IF Truthy(q) THEN liquefaction_weight ELSE 0)

\* final_score after "Normalize score based on present hazards"
normalized_score(f, l, q) ==
    IF total_weight(f, l, q) > 0
    THEN FracNorm(<<weighted_score(f, l, q), total_weight(f, l, q)>>)
    ELSE FracInt(0)

\* mutant: liquefaction left out of the count of high hazards
high_hazards_count_no_liquefaction(f, l, q) ==
    (IF f \in {"HS", "VHS"} THEN 1 ELSE 0)
  + (IF l \in {"HS", "VHS"} THEN 1 ELSE 0)

high_hazards_count(f, l, q) ==
    (IF f \in {"HS", "VHS"} THEN 1 ELSE 0)
  + (IF l \in {"HS", "VHS"} THEN 1 ELSE 0)
  + (IF q = "HS" THEN 1 ELSE 0)

\* final_score after the combined hazard penalty: min(100, final_score * 1.25)
penalized_score(f, l, q) ==
    IF high_hazards_count(f, l, q) >= 2
    THEN FracMin(FracInt(100), FracMul(normalized_score(f, l, q), <<125, 100>>))
    ELSE normalized_score(f, l, q)

\* mutant: band edges compared with <= instead of <
risk_category_inclusive(final_score) ==
    IF FracLe(final_score, FracInt(25))
    THEN [category |-> "LOW RISK", safety_level |-> "SAFE"]
    ELSE IF FracLe(final_score, FracInt(50))
    THEN [category |-> "MODERATE RISK", safety_level |-> "CAUTION"]
    ELSE IF FracLe(final_score, FracInt(75))
    THEN [category |-> "HIGH RISK", safety_level |-> "WARNING"]
    ELSE [category |-> "VERY HIGH RISK", safety_level |-> "DANGER"]

\* "Categorize overall risk", on the unrounded final_score
risk_category(final_score) ==
    IF FracLt(final_score, FracInt(25))
    THEN [category |-> "LOW RISK", safety_level |-> "SAFE"]
    ELSE IF FracLt(final_score, FracInt(50))
    THEN [category |-> "MODERATE RISK", safety_level |-> "CAUTION"]
    ELSE IF FracLt(final_score, FracInt(75))
    THEN [category |-> "HIGH RISK", safety_level |-> "WARNING"]
    ELSE [category |-> "VERY HIGH RISK", safety_level |-> "DANGER"]

\* mutant: the debris-flow override missing
calculate_risk_score_no_override(f, l, q) ==
    LET final_score == penalized_score(f, l, q)
        band == risk_category(final_score)
        rec_data == generate_smart_recommendations(f, l, q)
    IN  [score |-> Round1(FracMin(final_score, FracInt(100))),
         raw_score |-> Round1(final_score),
         category |-> band.category,
         safety_level |-> band.safety_level,
         recommendation_summary |-> rec_data.summary,
         recommendation_details |-> rec_data.details]

calculate_risk_score(f, l, q) ==
    IF l = "DF"
    THEN LET rec_data == generate_debris_flow_critical_warning
         IN  [score |-> 1000, raw_score |-> 1000,
              category |-> "CRITICAL - DEBRIS FLOW ZONE",
              safety_level |-> "EVACUATION REQUIRED",
              recommendation_summary |-> rec_data.summary,
              recommendation_details |-> rec_data.details]
    ELSE LET final_score == penalized_score(f, l, q)
             band == risk_category(final_score)
             rec_data == generate_smart_recommendations(f, l, q)
         IN  [score |-> Round1(FracMin(final_score, FracInt(100))),
              raw_score |-> Round1(final_score),
              category |-> band.category,
              safety_level |-> band.safety_level,
              recommendation_summary |-> rec_data.summary,
              recommendation_details |-> rec_data.details]

\* the locals of calculate_risk_score when it returns (nothing is computed on
\* the debris-flow path, which returns before any of them is assigned);
\* rec_call holds the locals of its call of generate_smart_recommendations
calculate_risk_score_locals(f, l, q) ==
    IF l = "DF"
    THEN [df |-> TRUE]
    ELSE [df |-> FALSE,
          normalized |-> normalized_score(f, l, q),
          high_hazards_count |-> high_hazards_count(f, l, q),
          final_score |-> penalized_score(f, l, q),
          rec_call |-> recommendation_locals(f, l, q)]

(***************************************************************************)
(* Facility summaries, the nearby_facilities argument.  A Python dict is a *)
(* record with a type field; NoneRec is Python's None where a dict may     *)
(* stand; EllipsisSet is the value of the literal { ... }.                 *)
(***************************************************************************)
NoneRec == [type |-> "None"]
EmptyDict == [type |-> "dict"]
EllipsisSet == [type |-> "set"]

\* build_facility_summary: the fields of the record that the scoring reads
build_facility_summary(distance_meters) ==
    [type |-> "dict", distance_meters |-> distance_meters]

\* d.get(key) / d.get(key, default) of a dict that may lack the key
DictGet(d, key, default) == IF key \in DOMAIN d THEN d[key] ELSE default

\* an attribute access .get on a value that is not a dict raises AttributeError
RaisesOnGet(d) == d.type # "dict"

(***************************************************************************)
(* calculate_suitability_score                                             *)
(***************************************************************************)
\* mutant: the evacuation sub-score falling to 0 at 10 km, as the hospital one does
evac_score_to_10km(distance_meters) ==
    IF distance_meters >= 10000 THEN FracInt(0)
    ELSE FracMin(FracInt(100), FracNorm(<<10000 - distance_meters, 95>>))

\* max(0, min(100, 100 - ((km - 0.5) / 4.5) * 100)), km = distance_meters / 1000
evac_score(distance_meters) ==
    IF distance_meters >= 5000 THEN FracInt(0)
    ELSE FracMin(FracInt(100), FracNorm(<<5000 - distance_meters, 45>>))

\* max(0, min(100, 100 - ((km - 1) / 9) * 100))
hosp_score(distance_meters) ==
    IF distance_meters >= 10000 THEN FracInt(0)
    ELSE FracMin(FracInt(100), FracNorm(<<10000 - distance_meters, 90>>))

accessibility_score(nf) ==
    LET summary == DictGet(nf, "summary", EmptyDict)
        evac_data == DictGet(summary, "nearest_evacuation", NoneRec)
        hosp_data == DictGet(summary, "nearest_hospital", NoneRec)
        evac_part == IF evac_data # NoneRec /\ evac_data # EmptyDict
                     THEN FracMul(evac_score(DictGet(evac_data, "distance_meters", 999999)), <<5, 10>>)
                     ELSE FracInt(0)
        hosp_part == IF hosp_data # NoneRec /\ hosp_data # EmptyDict
                     THEN FracMul(hosp_score(DictGet(hosp_data, "distance_meters", 999999)), <<5, 10>>)
                     ELSE FracInt(0)
    IN  FracAdd(evac_part, hosp_part)

infrastructure_score(nf) ==
    LET counts == DictGet(nf, "counts", EmptyDict)
        evac_count == DictGet(counts, "evacuation", 0)
        medical_count == DictGet(counts, "medical", 0)
        emergency_count == DictGet(counts, "emergency_services", 0)
        essential_count == DictGet(counts, "essential", 0)
    IN  (IF evac_count >= 3 THEN 25 ELSE IF evac_count >= 1 THEN 15 ELSE 0)
      + (IF medical_count >= 2 THEN 25 ELSE IF medical_count >= 1 THEN 15 ELSE 0)
      + (IF emergency_count >= 2 THEN 25 ELSE IF emergency_count >= 1 THEN 15 ELSE 0)
      + (IF essential_count >= 5 THEN 25 ELSE IF essential_count >= 2 THEN 15 ELSE 0)

Min(a, b) == IF a <= b THEN a ELSE b

\* mutant: safety weighted 0.7, the three weights no longer summing to 1
safety_score_heavy(hazard_score) == FracNorm(<<(1000 - hazard_score) * 7, 100>>)

\* mutant: the hazard score itself weighted, not its inverse
safety_score_of_hazard(hazard_score) == FracNorm(<<hazard_score * 6, 100>>)

\* safety_score = (100 - hazard_score) * 0.6, hazard_score in tenths
safety_score(hazard_score) == FracNorm(<<(1000 - hazard_score) * 6, 100>>)

accessibility_component(nf) == FracMul(accessibility_score(nf), <<2, 10>>)

infrastructure_component(nf) == FracMul(FracInt(Min(100, infrastructure_score(nf))), <<2, 10>>)

\* mutant: the penalty for very high risk areas never applied
total_suitability_no_penalty(hazard_score, nf) ==
    FracAdd(safety_score(hazard_score),
            FracAdd(accessibility_component(nf), infrastructure_component(nf)))

\* "TOTAL SUITABILITY SCORE" and the penalty for very high risk areas
total_suitability(hazard_score, nf) ==
    LET total == FracAdd(safety_score(hazard_score),
                         FracAdd(accessibility_component(nf), infrastructure_component(nf)))
    IN  IF hazard_score >= 750 THEN FracMul(total, <<8, 10>>) ELSE total

suitability_category(total) ==
    IF FracLe(FracInt(70), total) THEN "HIGHLY SUITABLE"
    ELSE IF FracLe(FracInt(50), total) THEN "MODERATELY SUITABLE"
    ELSE IF FracLe(FracInt(30), total) THEN "MARGINALLY SUITABLE"
    ELSE "NOT SUITABLE"

\* hazard_data['overall_risk'] is overall_risk; scores are returned in tenths
calculate_suitability_score(overall_risk, nf) ==
    IF overall_risk.safety_level = "EVACUATION REQUIRED"
    THEN [type |-> "dict", score |-> 0, category |-> "NOT SUITABLE",
          breakdown |-> [safety |-> 0, accessibility |-> 0, infrastructure |-> 0]]
    ELSE IF RaisesOnGet(nf) \/ RaisesOnGet(DictGet(nf, "summary", EmptyDict))
                            \/ RaisesOnGet(DictGet(nf, "counts", EmptyDict))
    THEN [type |-> "AttributeError"]
    ELSE LET total == total_suitability(overall_risk.score, nf)
         IN  [type |-> "dict", score |-> Round1(total),
              category |-> suitability_category(total),
              breakdown |-> [safety |-> Round1(safety_score(overall_risk.score)),
                             accessibility |-> Round1(accessibility_component(nf)),
                             infrastructure |-> Round1(infrastructure_component(nf))]]

\* the locals of calculate_suitability_score when it returns
calculate_suitability_score_locals(overall_risk, nf) ==
    IF overall_risk.safety_level = "EVACUATION REQUIRED"
    THEN [df |-> TRUE, raised |-> FALSE]
    ELSE IF RaisesOnGet(nf) \/ RaisesOnGet(DictGet(nf, "summary", EmptyDict))
                            \/ RaisesOnGet(DictGet(nf, "counts", EmptyDict))
    THEN [df |-> FALSE, raised |-> TRUE]
    ELSE [df |-> FALSE, raised |-> FALSE,
          safety_score |-> safety_score(overall_risk.score),
          accessibility_component |-> accessibility_component(nf),
          infrastructure_component |-> infrastructure_component(nf),
          total_suitability |-> total_suitability(overall_risk.score, nf)]

(***************************************************************************)
(* The facility dicts the handlers pass to calculate_suitability_score.     *)
(***************************************************************************)
\* the dict returned by get_nearby_facilities_for_suitability
FacilitySummary(ev, ho, fi, c_ev, c_me, c_em, c_es, c_ot) ==
    [type |-> "dict",
     summary |-> [type |-> "dict", nearest_evacuation |-> ev,
                  nearest_hospital |-> ho, nearest_fire_station |-> fi],
     counts |-> [type |-> "dict", evacuation |-> c_ev, medical |-> c_me,
                 emergency_services |-> c_em, essential |-> c_es, other |-> c_ot,
                 total |-> c_ev + c_me + c_em + c_es + c_ot]]

\* the 'No facilities' summary (lines 442-456 and 541-555)
EmptySummary == FacilitySummary(NoneRec, NoneRec, NoneRec, 0, 0, 0, 0, 0)

\* the fallback of get_location_hazards (line 212)
FallbackFacilities == [type |-> "dict", counts |-> EmptyDict, summary |-> EmptyDict]

\* simplified_result as get_nearby_facilities builds it (lines 403-420):
\* result['summary'] and result['counts'] are both the set literal { ... }
PlaceholderFacilities == [type |-> "dict", summary |-> EllipsisSet, counts |-> EllipsisSet]

(***************************************************************************)
(* Facility discovery: OverpassClient.  Positions are latitudes on one     *)
(* meridian in units of 0.00001 degree; all requests share the longitude.  *)
(***************************************************************************)
Info(category, name, priority, subcat) ==
    [category |-> category, name |-> name, priority |-> priority, subcat |-> subcat]

AMENITY_MAPPING ==
    [hospital |-> Info("emergency", "Hospital", 1, "medical"),
     clinic |-> Info("emergency", "Clinic", 1, "medical"),
     doctors |-> Info("emergency", "Medical Clinic", 1, "medical"),
     pharmacy |-> Info("emergency", "Pharmacy", 3, "essential"),
     fire_station |-> Info("emergency", "Fire Station", 1, "emergency_services"),
     police |-> Info("emergency", "Police Station", 1, "emergency_services"),
     school |-> Info("everyday", "School", 1, "evacuation"),
     kindergarten |-> Info("everyday", "Kindergarten", 2, "evacuation"),
     college |-> Info("everyday", "College", 1, "evacuation"),
     university |-> Info("everyday", "University", 1, "evacuation"),
     community_centre |-> Info("government", "Community Center", 1, "evacuation"),
     marketplace |-> Info("everyday", "Market", 3, "essential"),
     bank |-> Info("everyday", "Bank", 3, "essential"),
     atm |-> Info("everyday", "ATM", 4, "essential"),
     fuel |-> Info("everyday", "Gas Station", 3, "essential"),
     restaurant |-> Info("everyday", "Restaurant", 4, "essential"),
     fast_food |-> Info("everyday", "Fast Food", 4, "essential"),
     cafe |-> Info("everyday", "Cafe", 4, "essential"),
     post_office |-> Info("government", "Post Office", 3, "essential"),
     ferry_terminal |-> Info("everyday", "Ferry Terminal", 3, "essential"),
     townhall |-> Info("government", "Town/Municipal Hall", 2, "government"),
     public_building |-> Info("government", "Public Building", 3, "government")]

SHOP_MAPPING ==
    [supermarket |-> Info("everyday", "Supermarket", 3, "essential"),
     convenience |-> Info("everyday", "Convenience Store", 3, "essential"),
     mall |-> Info("everyday", "Shopping Mall", 3, "essential"),
     department_store |-> Info("everyday", "Department Store", 3, "essential")]

OFFICE_MAPPING ==
    [government |-> Info("government", "Government Office", 3, "government")]

\* an element of the Overpass response with one tag (key, value), its name
\* ("" when it has none) and its latitude (0 when it has no coordinates)
Element(id, osm_type, key, value, name, lat) ==
    [id |-> id, type |-> osm_type, key |-> key, value |-> value, name |-> name, lat |-> lat]

\* _parse_element: the facility dict, or NoneRec for None
parse_element(element) ==
    LET mapping == CASE element.key = "amenity" -> AMENITY_MAPPING
                     [] element.key = "shop" -> SHOP_MAPPING
                     [] element.key = "office" -> OFFICE_MAPPING
                     [] OTHER -> [x \in {} |-> x]
    IN  IF element.type \notin {"node", "way", "relation"} THEN NoneRec
        ELSE IF element.lat = 0 THEN NoneRec
        ELSE IF element.value \notin DOMAIN mapping THEN NoneRec
        ELSE LET facility_info == mapping[element.value]
             IN  [type |-> "dict",
                  osm_id |-> element.id,
                  osm_type |-> element.type,
                  name |-> IF element.name # "" THEN element.name
                           ELSE "Unnamed " \o facility_info.name,
                  facility_type |-> element.value,
                  type_display |-> facility_info.name,
                  category |-> facility_info.category,
                  subcategory |-> facility_info.subcat,
                  priority |-> facility_info.priority,
                  lat |-> element.lat]

\* _haversine_distance and calculate_haversine_distance between two points of
\* the meridian, in whole metres: 6371000 * radians(0.00001) = 1.11195 m per unit
haversine_distance(lat1, lat2) ==
    LET delta == IF lat1 >= lat2 THEN lat1 - lat2 ELSE lat2 - lat1
    IN  (delta * 111195) \div 100000

\* list.sort(key=...) is stable: the indices 1..n ordered by keys, ties in index order
SortedIndices(keys, n) ==
    LET before(i) == {j \in 1..n : keys[j] < keys[i] \/ (keys[j] = keys[i] /\ j < i)}
    IN  [p \in 1..n |-> CHOOSE i \in 1..n : Cardinality(before(i)) = p - 1]

\* items sorted by keys, keys[i] being the sort key of items[i]
StableSort(items, keys) ==
    LET idx == SortedIndices(keys, Len(items))
    IN  [i \in 1..Len(items) |-> items[idx[i]]]

\* items[:n]
Take(items, n) == SubSeq(items, 1, Min(n, Len(items)))

\* mutant: the loop without the seen_ids test
RECURSIVE ParseAll_no_seen_ids(_, _, _, _)
ParseAll_no_seen_ids(elements, lat, facilities, seen_ids) ==
    IF elements = <<>> THEN facilities
    ELSE LET element == Head(elements)
             facility == parse_element(element)
         IN  IF facility # NoneRec
             THEN ParseAll_no_seen_ids(Tail(elements), lat,
                           Append(facilities,
                                  facility @@ [straight_distance |->
                                                 haversine_distance(lat, facility.lat)]),
                           seen_ids \cup {element.id})
             ELSE ParseAll_no_seen_ids(Tail(elements), lat, facilities, seen_ids)

\* the loop over data['elements'] (lines 105-118)
RECURSIVE ParseAll(_, _, _, _)
ParseAll(elements, lat, facilities, seen_ids) ==
    IF elements = <<>> THEN facilities
    ELSE LET element == Head(elements)
             facility == parse_element(element)
         IN  IF element.id \notin seen_ids /\ facility # NoneRec
             THEN ParseAll(Tail(elements), lat,
                           Append(facilities,
                                  facility @@ [straight_distance |->
                                                 haversine_distance(lat, facility.lat)]),
                           seen_ids \cup {element.id})
             ELSE ParseAll(Tail(elements), lat, facilities, seen_ids)

\* the sort keys x['straight_distance'] and (x.get('priority', 9), x['straight_distance'])
StraightDistance(items) == [i \in 1..Len(items) |-> items[i].straight_distance]
PriorityThenDistance(items) ==
    [i \in 1..Len(items) |-> items[i].priority * 10000000 + items[i].straight_distance]

\* list.sort(key=lambda x: x['straight_distance'])
SortByDistance(items) == StableSort(items, StraightDistance(items))
IsCritical(f) == f.priority <= 2
IsEssential(f) == ~IsCritical(f) /\ f.subcategory = "essential"
IsOther(f) == ~IsCritical(f) /\ f.subcategory # "essential"

\* what requests.post gives: a response with its status code and body ("json"
\* for a body response.json() parses, "garbage" for one it cannot), or the
\* exception requests.exceptions.Timeout
HttpResponse(status_code, body) == [status_code |-> status_code, body |-> body]
Timeout == [exception |-> "Timeout"]

max_retries == 2

\* the service answering every POST of a query with 200 and its elements
ServiceUp == [k \in 1..max_retries |-> HttpResponse(200, "json")]

\* the answer of the facility-discovery service: the elements around the point
\* (around:radius,lat,lng), in the order the service lists them
OverpassResponse(elements, lat, radius) ==
    SelectSeq(elements, LAMBDA e : haversine_distance(lat, e.lat) <= radius)

\* lines 105-166 of OverpassClient.query_facilities: what it returns once
\* response.json() has given the elements
query_facilities(elements, lat, radius) ==
    LET facilities == ParseAll(OverpassResponse(elements, lat, radius), lat, <<>>, {})
        critical_facilities == SortByDistance(SelectSeq(facilities, IsCritical))
        essential_facilities == SortByDistance(SelectSeq(facilities, IsEssential))
        other_facilities == SortByDistance(SelectSeq(facilities, IsOther))
        final_facilities == Take(critical_facilities, 50) \o Take(essential_facilities, 20)
                              \o Take(other_facilities, 10)
    IN  StableSort(final_facilities, PriorityThenDistance(final_facilities))

retry_delay == 2

\* the status code of a response, 0 for the Timeout exception
StatusCode(response) == IF response = Timeout THEN 0 ELSE response.status_code

\* mutant: a 429 never retried, the empty list returned at once
RECURSIVE post_loop_no_retry(_, _, _, _)
post_loop_no_retry(responses, attempt, delay, sleeps) ==
    LET response == responses[attempt + 1]
    IN  IF response = Timeout
        THEN [posts |-> attempt + 1, sleeps |-> sleeps, exit |-> "Timeout", response |-> response]
        ELSE IF response.status_code = 429
        THEN [posts |-> attempt + 1, sleeps |-> sleeps, exit |-> "return", response |-> response]
        ELSE IF response.status_code >= 400
        THEN [posts |-> attempt + 1, sleeps |-> sleeps, exit |-> "HTTPError",
              response |-> response]
        ELSE [posts |-> attempt + 1, sleeps |-> sleeps, exit |-> "break", response |-> response]

\* 'for attempt in range(max_retries)' (lines 84-102) from attempt on:
\* responses[k] answers the k-th requests.post; the POSTs issued, the delays
\* slept, and how the loop is left (break, the return of line 99, or the
\* exception raised by requests.post or response.raise_for_status)
RECURSIVE post_loop(_, _, _, _)
post_loop(responses, attempt, delay, sleeps) ==
    LET response == responses[attempt + 1]
    IN  IF response = Timeout
        THEN [posts |-> attempt + 1, sleeps |-> sleeps, exit |-> "Timeout", response |-> response]
        ELSE IF response.status_code = 429
        THEN IF attempt < max_retries - 1
             THEN post_loop(responses, attempt + 1, delay * 2, Append(sleeps, delay))
             ELSE [posts |-> attempt + 1, sleeps |-> sleeps, exit |-> "return",
                   response |-> response]
        ELSE IF response.status_code >= 400
        THEN [posts |-> attempt + 1, sleeps |-> sleeps, exit |-> "HTTPError",
              response |-> response]
        ELSE [posts |-> attempt + 1, sleeps |-> sleeps, exit |-> "break", response |-> response]

\* OverpassClient.query_facilities (lines 56-175): its locals at its return.
\* 'except requests.exceptions.Timeout' and 'except Exception' turn every
\* exception raised inside the try into the empty list
query_facilities_locals(responses, elements, lat, radius) ==
    LET loop == post_loop(responses, 0, retry_delay, <<>>)
        exit == IF loop.exit = "break" /\ loop.response.body # "json"
                THEN "JSONDecodeError" ELSE loop.exit
    IN  [posts |-> loop.posts,
         sleeps |-> loop.sleeps,
         exit |-> exit,
         returned |-> CASE exit = "break" -> query_facilities(elements, lat, radius)
                        [] exit = "return" -> <<>>
                        [] exit = "Timeout" -> <<>>
                        [] OTHER -> <<>>]

\* mutant: the elements parsed whatever the exchange with the service gave
OverpassClient_query_facilities_ignoring_errors(responses, elements, lat, radius) ==
    query_facilities(elements, lat, radius)

\* OverpassClient.query_facilities(lat, lng, radius)
OverpassClient_query_facilities(responses, elements, lat, radius) ==
    query_facilities_locals(responses, elements, lat, radius).returned

(***************************************************************************)
(* Distance annotation, grouping and summary, the code shared by           *)
(* get_nearby_facilities and get_nearby_facilities_for_suitability.        *)
(***************************************************************************)
\* lines 292-307 / 459-474: the derived fields the grouping and the summary read
Annotate(facilities, lat) ==
    [i \in 1..Len(facilities) |->
        LET distance_meters == haversine_distance(lat, facilities[i].lat)
        IN  facilities[i] @@ [distance_meters |-> distance_meters,
                              is_walkable |-> distance_meters <= 500]]

DistanceMeters(items) == [i \in 1..Len(items) |-> items[i].distance_meters]

\* mutant: no final else, a facility no rule matches keeps its subcategory
GroupOf_no_else(f) ==
    IF f.subcategory = "evacuation"
       \/ f.facility_type \in {"school", "community_centre", "kindergarten", "college",
                               "university"}
    THEN "evacuation"
    ELSE IF f.subcategory = "medical"
            \/ f.facility_type \in {"hospital", "clinic", "doctors", "pharmacy"}
    THEN "medical"
    ELSE IF f.subcategory = "emergency_services"
            \/ f.facility_type \in {"fire_station", "police"}
    THEN "emergency_services"
    ELSE IF f.subcategory = "essential"
            \/ f.facility_type \in {"marketplace", "supermarket", "convenience", "bank",
                                    "fuel", "restaurant", "fast_food", "cafe", "mall",
                                    "atm", "department_store"}
    THEN "essential"
    ELSE f.subcategory

\* lines 330-351 / 485-504: first match wins
GroupOf(f) ==
    IF f.subcategory = "evacuation"
       \/ f.facility_type \in {"school", "community_centre", "kindergarten", "college",
                               "university"}
    THEN "evacuation"
    ELSE IF f.subcategory = "medical"
            \/ f.facility_type \in {"hospital", "clinic", "doctors", "pharmacy"}
    THEN "medical"
    ELSE IF f.subcategory = "emergency_services"
            \/ f.facility_type \in {"fire_station", "police"}
    THEN "emergency_services"
    ELSE IF f.subcategory = "essential"
            \/ f.facility_type \in {"marketplace", "supermarket", "convenience", "bank",
                                    "fuel", "restaurant", "fast_food", "cafe", "mall",
                                    "atm", "department_store"}
    THEN "essential"
    ELSE "other"

\* the facilities sorted by distance, each with f['subcategory'] set to its group
Grouped(facilities, lat) ==
    LET annotated == Annotate(facilities, lat)
        sorted == StableSort(annotated, DistanceMeters(annotated))
    IN  [i \in 1..Len(sorted) |-> [sorted[i] EXCEPT !.subcategory = GroupOf(sorted[i])]]

GroupList(grouped, group) == SelectSeq(grouped, LAMBDA f : f.subcategory = group)

\* evacuation_centers[0] if evacuation_centers else None
First(items) == IF Len(items) > 0 THEN items[1] ELSE NoneRec

\* mutant: the first emergency service, whatever its type
nearest_fire_any(emergency_services) == First(emergency_services)

\* next((f for f in emergency_services if f.get('facility_type') == 'fire_station'), None)
nearest_fire(emergency_services) ==
    First(SelectSeq(emergency_services, LAMBDA f : f.facility_type = "fire_station"))

\* build_facility_summary(facility) with its 'if not facility: return None'
Summarize(facility) ==
    IF facility = NoneRec THEN NoneRec ELSE build_facility_summary(facility.distance_meters)

FirstOrNone(items) == Summarize(First(items))

NearestFire(emergency_services) == Summarize(nearest_fire(emergency_services))

\* the locals of get_nearby_facilities_for_suitability when it returns, after
\* facilities = OverpassClient.query_facilities(lat, lng, 3000), and the dict
\* it returns
suitability_locals(facilities, lat) ==
    LET grouped == Grouped(facilities, lat)
        evacuation_centers == GroupList(grouped, "evacuation")
        medical == GroupList(grouped, "medical")
        emergency_services == GroupList(grouped, "emergency_services")
        essential_services == GroupList(grouped, "essential")
        other_facilities == GroupList(grouped, "other")
    IN  [type |-> "dict",
         facilities |-> grouped,
         evacuation_centers |-> evacuation_centers,
         medical |-> medical,
         emergency_services |-> emergency_services,
         essential_services |-> essential_services,
         other_facilities |-> other_facilities,
         nearest_evacuation |-> First(evacuation_centers),
         nearest_hospital |-> First(medical),
         nearest_fire |-> nearest_fire(emergency_services),
         returned |->
            IF Len(facilities) = 0 THEN EmptySummary
            ELSE [FacilitySummary(Summarize(First(evacuation_centers)),
                                  Summarize(First(medical)),
                                  Summarize(nearest_fire(emergency_services)),
                                  Len(evacuation_centers), Len(medical),
                                  Len(emergency_services), Len(essential_services),
                                  Len(other_facilities))
                    EXCEPT !.counts.total = Len(facilities)]]

\* get_nearby_facilities_for_suitability(lat, lng): always queries with radius 3000
get_nearby_facilities_for_suitability(responses, elements, lat) ==
    suitability_locals(OverpassClient_query_facilities(responses, elements, lat, 3000),
                       lat).returned

\* the 'No facilities found in this area' response of get_nearby_facilities
NoFacilitiesResult ==
    [type |-> "dict", error |-> "No facilities found in this area",
     summary |-> EmptySummary.summary, counts |-> EmptySummary.counts,
     evacuation_centers |-> <<>>, medical |-> <<>>, emergency_services |-> <<>>,
     essential_services |-> <<>>, other |-> <<>>]

\* result as get_nearby_facilities leaves it at line 411: the second assignment
\* (lines 403-411) replaces the one of lines 380-399, and its 'summary' and
\* 'counts' are the set literal { ... }
nearby_result(facilities, lat) ==
    LET grouped == Grouped(facilities, lat)
    IN  [type |-> "dict",
         summary |-> EllipsisSet,
         evacuation_centers |-> Take(GroupList(grouped, "evacuation"), 10),
         medical |-> Take(GroupList(grouped, "medical"), 10),
         emergency_services |-> Take(GroupList(grouped, "emergency_services"), 10),
         essential_services |-> Take(GroupList(grouped, "essential"), 10),
         other |-> Take(GroupList(grouped, "other"), 10),
         counts |-> EllipsisSet]

\* simplified_result (lines 417-420)
simplified_result(result) ==
    [type |-> "dict", summary |-> result.summary, counts |-> result.counts]

(***************************************************************************)
(* The request handlers and the cache they share.                          *)
(***************************************************************************)
MaxRequests == 2
MaxElements == 3

\* latitudes of the requests and radii of get_nearby_facilities requests
Lats == {7, 23}
Radii == {1000, 3000}

\* the facility data: the osm_data the discovery service knows, nearest first
KnownElements ==
    <<Element(1, "node", "amenity", "school", "Central School", 400),
      Element(2, "node", "amenity", "police", "", 620),
      Element(3, "way", "amenity", "hospital", "Provincial Hospital", 2000),
      Element(4, "node", "amenity", "restaurant", "", 4200)>>

\* round(lat, 4): the nearest multiple of 10 units, ties to the even digit
Round4(lat) ==
    LET q == lat \div 10
        r == lat % 10
    IN  IF r > 5 THEN 10 * (q + 1)
        ELSE IF r = 5 THEN 10 * (q + (q % 2))
        ELSE 10 * q

\* cache_key = f"facilities_{round(lat, 4)}_{round(lng, 4)}", and cache_key + "_full"
cache_key(lat) == <<"facilities", Round4(lat), "">>
cache_key_full(lat) == <<"facilities", Round4(lat), "_full">>
CacheKeys == {cache_key(lat) : lat \in Lats} \cup {cache_key_full(lat) : lat \in Lats}

\* cache.set(key, value, 300)
CacheSet(key, value) ==
    /\ cache' = [cache EXCEPT ![key] = value]
    /\ written' = [written EXCEPT ![key] = @ \cup {value}]

\* no request has been made: empty facility data, empty cache
NoRequests ==
    /\ osm_data = <<>>
    /\ hazard_store = {}
    /\ overpass = ServiceUp
    /\ cache = [k \in CacheKeys |-> NoneRec]
    /\ written = [k \in CacheKeys |-> {}]
    /\ requests = <<>>

\* how a query of the service answering with responses ends: "break" when it
\* gets as far as parsing the elements
QueryExit(responses) == query_facilities_locals(responses, <<>>, 0, 0).exit

\* a request being handled (params is request.GET while the handler has not
\* converted it).  Beside the handler's locals it records what the
\* handler did: service is how a query would have ended when the handler read
\* the cache, query is the exchange of its own query of the service (posts
\* and exit), stored the cache keys it wrote
Request(op, lat, radius) ==
    [op |-> op, lat |-> lat, radius |-> radius, pc |-> "received",
     from_cache |-> FALSE, result |-> NoneRec, response |-> NoneRec,
     service |-> "", query |-> NoneRec, stored |-> {}, params |-> NoneRec]

\* the exchange of a query, as a request records it
Exchange(called) == [type |-> "dict", posts |-> called.posts, exit |-> called.exit]

\* a request with valid numeric lat/lng (and radius) arrives
Arrive ==
    /\ Len(requests) < MaxRequests
    /\ \E lat \in Lats :
         \/ requests' = Append(requests, Request("get_location_hazards", lat, 3000))
         \/ \E radius \in Radii :
              requests' = Append(requests, Request("get_nearby_facilities", lat, radius))
    /\ UNCHANGED <<score_vars, env_vars, cache, written>>

\* Response(data) / Response(data, status=...)
Response(status, data) == [type |-> "Response", status |-> status, data |-> data]

\* lines 192 and 214-244 of get_location_hazards: the assessment built from the
\* hazard levels of the point and the facility data, or the 500 response of the
\* handler 'except Exception' when calculate_suitability_score raises
LocationHazardsResponse(facilities) ==
    LET risk_assessment == calculate_risk_score(flood_level, landslide_level, liquefaction_level)
        suitability == calculate_suitability_score(risk_assessment, facilities)
    IN  IF suitability.type = "AttributeError"
        THEN Response(500, [type |-> "dict", error |-> "AttributeError"])
        ELSE Response(200, [type |-> "dict",
                            overall_risk |-> risk_assessment,
                            suitability |-> suitability,
                            flood |-> [level |-> flood_level],
                            landslide |-> [level |-> landslide_level],
                            liquefaction |-> [level |-> liquefaction_level]])

\* get_location_hazards up to cache.get (lines 168-208).  The three lookups of
\* lines 174-184 stand directly in the handler's try: when the lookup of a
\* layer raises, 'except Exception' (lines 243-244) answers 500.  On a cache
\* hit the handler goes on to the response with the cached value
LH_Lookup(i) ==
    /\ requests[i].op = "get_location_hazards"
    /\ requests[i].pc = "received"
    /\ LET cached == cache[cache_key(requests[i].lat)]
       IN  IF hazard_store # {}
           THEN requests' = [requests EXCEPT ![i].pc = "done",
                                             ![i].service = QueryExit(overpass),
                                             ![i].response =
                                                 Response(500, [type |-> "dict",
                                                                error |-> "OperationalError"])]
           ELSE IF cached # NoneRec
           THEN requests' = [requests EXCEPT ![i].pc = "done",
                                             ![i].service = QueryExit(overpass),
                                             ![i].from_cache = TRUE,
                                             ![i].response = LocationHazardsResponse(cached)]
           ELSE requests' = [requests EXCEPT ![i].pc = "fetch",
                                             ![i].service = QueryExit(overpass)]
    /\ UNCHANGED <<score_vars, env_vars, cache, written>>

\* get_location_hazards after a miss (lines 204-239): fetch, cache.set, respond
LH_Fetch(i) ==
    /\ requests[i].op = "get_location_hazards"
    /\ requests[i].pc = "fetch"
    /\ \E fetched \in {get_nearby_facilities_for_suitability(overpass, osm_data,
                                                               requests[i].lat)} :
         /\ CacheSet(cache_key(requests[i].lat), fetched)
         /\ requests' = [requests EXCEPT ![i].pc = "done",
                                         ![i].query = Exchange(query_facilities_locals(
                                                             overpass, osm_data,
                                                             requests[i].lat, 3000)),
                                         ![i].stored = {cache_key(requests[i].lat)},
                                         ![i].response = LocationHazardsResponse(fetched)]
    /\ UNCHANGED <<score_vars, env_vars>>

\* get_nearby_facilities up to the cache check (lines 249-261)
NF_Lookup(i) ==
    /\ requests[i].op = "get_nearby_facilities"
    /\ requests[i].pc = "received"
    /\ LET cached_result == cache[cache_key_full(requests[i].lat)]
       IN  IF cached_result # NoneRec
           THEN requests' = [requests EXCEPT ![i].pc = "done",
                                             ![i].service = QueryExit(overpass),
                                             ![i].from_cache = TRUE,
                                             ![i].response = Response(200, cached_result)]
           ELSE requests' = [requests EXCEPT ![i].pc = "fetch",
                                             ![i].service = QueryExit(overpass)]
    /\ UNCHANGED <<score_vars, env_vars, cache, written>>

\* what get_nearby_facilities returns for (lat, radius) when it computes afresh
FreshNearbyResult(lat, radius) ==
    LET facilities == OverpassClient_query_facilities(overpass, osm_data, lat, radius)
    IN  IF Len(facilities) = 0 THEN NoFacilitiesResult ELSE nearby_result(facilities, lat)

\* get_nearby_facilities after a miss (lines 263-414): query, build the result,
\* store it under the "_full" key; nothing is stored when no facility is found
NF_Fetch(i) ==
    /\ requests[i].op = "get_nearby_facilities"
    /\ requests[i].pc = "fetch"
    /\ LET facilities == OverpassClient_query_facilities(overpass, osm_data, requests[i].lat,
                                                         requests[i].radius)
           result == FreshNearbyResult(requests[i].lat, requests[i].radius)
       IN  IF Len(facilities) = 0
           THEN /\ requests' = [requests EXCEPT ![i].pc = "done",
                                                ![i].query = Exchange(query_facilities_locals(
                                                    overpass, osm_data, requests[i].lat,
                                                    requests[i].radius)),
                                                ![i].response = Response(200, result)]
                /\ UNCHANGED <<cache, written>>
           ELSE /\ CacheSet(cache_key_full(requests[i].lat), result)
                /\ requests' = [requests EXCEPT ![i].pc = "store",
                                                ![i].query = Exchange(query_facilities_locals(
                                                    overpass, osm_data, requests[i].lat,
                                                    requests[i].radius)),
                                                ![i].stored = {cache_key_full(requests[i].lat)},
                                                ![i].result = result]
    /\ UNCHANGED <<score_vars, env_vars>>

\* get_nearby_facilities lines 416-423: store the simplified result, respond
NF_Store(i) ==
    /\ requests[i].op = "get_nearby_facilities"
    /\ requests[i].pc = "store"
    /\ CacheSet(cache_key(requests[i].lat), simplified_result(requests[i].result))
    /\ requests' = [requests EXCEPT ![i].pc = "done",
                                    ![i].stored = @ \cup {cache_key(requests[i].lat)},
                                    ![i].response = Response(200, requests[i].result)]
    /\ UNCHANGED <<score_vars, env_vars>>

\* an entry reaches its 300 s lifetime
Expire ==
    /\ \E k \in CacheKeys :
         /\ cache[k] # NoneRec
         /\ cache' = [cache EXCEPT ![k] = NoneRec]
    /\ UNCHANGED <<score_vars, env_vars, written, requests>>

\* the hazard store holds one level per layer at the requested points; the
\* facility data is a prefix of the known osm_data
Init ==
    /\ flood_level \in {None, "HS"}
    /\ landslide_level \in {None, "VHS", "DF"}
    /\ liquefaction_level = None
    /\ nearby_facilities = NoResult
    /\ risk = NoResult
    /\ risk_locals = NoResult
    /\ suit = NoResult
    /\ suit_locals = NoResult
    /\ prev_risk = NoResult
    /\ prev_suit = NoResult
    /\ recommendations = NoResult
    /\ pc = "start"
    /\ osm_data \in {SubSeq(KnownElements, 1, n) : n \in 0..MaxElements}
    /\ hazard_store = {}
    /\ overpass = ServiceUp
    /\ cache = [k \in CacheKeys |-> NoneRec]
    /\ written = [k \in CacheKeys |-> {}]
    /\ requests = <<>>

Next ==
    \/ Arrive
    \/ \E i \in 1..Len(requests) : LH_Lookup(i)
    \/ \E i \in 1..Len(requests) : LH_Fetch(i)
    \/ \E i \in 1..Len(requests) : NF_Lookup(i)
    \/ \E i \in 1..Len(requests) : NF_Fetch(i)
    \/ \E i \in 1..Len(requests) : NF_Store(i)
    \/ Expire

Spec == Init /\ [][Next]_vars

(***************************************************************************)
(* The handlers while a collaborator fails: the lookup of one layer of the  *)
(* hazard store may raise, and the discovery service may time out, fail,    *)
(* limit the rate on every attempt or answer an unparsable body, and        *)
(* recover between two requests.                                           *)
(***************************************************************************)
HazardLayers == {"flood", "landslide", "liquefaction"}

\* what the service answers to every POST of a query while it is in one state
Always(response) == [k \in 1..max_retries |-> response]
Outages ==
    {Always(Timeout), Always(HttpResponse(500, "garbage")),
     Always(HttpResponse(429, "garbage")), Always(HttpResponse(200, "garbage"))}

\* facilities exist around every requested point
InitOutage ==
    /\ flood_level \in {None, "HS"}
    /\ landslide_level = IF flood_level = "HS" THEN "VHS" ELSE None
    /\ liquefaction_level = None
    /\ nearby_facilities = NoResult
    /\ risk = NoResult
    /\ risk_locals = NoResult
    /\ suit = NoResult
    /\ suit_locals = NoResult
    /\ prev_risk = NoResult
    /\ prev_suit = NoResult
    /\ recommendations = NoResult
    /\ pc = "start"
    /\ osm_data = SubSeq(KnownElements, 1, MaxElements)
    /\ hazard_store \in {{}} \cup {{layer} : layer \in HazardLayers}
    /\ overpass \in {ServiceUp} \cup Outages
    /\ cache = [k \in CacheKeys |-> NoneRec]
    /\ written = [k \in CacheKeys |-> {}]
    /\ requests = <<>>

\* between two requests the service fails, fails in another way, or recovers
ServiceChanges ==
    /\ Len(requests) < MaxRequests
    /\ \A i \in 1..Len(requests) : requests[i].pc = "done"
    /\ \E responses \in ({ServiceUp} \cup Outages) \ {overpass} : overpass' = responses
    /\ UNCHANGED <<score_vars, osm_data, hazard_store, cache, written, requests>>

\* the requests are made within the 300 s lifetime of the entries
NextOutage ==
    \/ Arrive
    \/ \E i \in 1..Len(requests) : LH_Lookup(i)
    \/ \E i \in 1..Len(requests) : LH_Fetch(i)
    \/ \E i \in 1..Len(requests) : NF_Lookup(i)
    \/ \E i \in 1..Len(requests) : NF_Fetch(i)
    \/ \E i \in 1..Len(requests) : NF_Store(i)
    \/ ServiceChanges

SpecOutage == InitOutage /\ [][NextOutage]_vars

(***************************************************************************)
(* The handlers on raw query parameters.  request.GET.get gives the string *)
(* of a parameter, a sequence of characters here, or None when the request *)
(* has no such parameter.  Numerals are plain decimal ones: an optional    *)
(* sign, digits, and for float one point.                                  *)
(***************************************************************************)
Param(chars) == [present |-> TRUE, chars |-> chars]
Missing == [present |-> FALSE, chars |-> <<>>]

DigitChars == <<"0", "1", "2", "3", "4", "5", "6", "7", "8", "9">>
IsDigit(c) == \E d \in 1..Len(DigitChars) : DigitChars[d] = c
DigitValue(c) == (CHOOSE d \in 1..Len(DigitChars) : DigitChars[d] = c) - 1

\* the number a sequence of digits writes
RECURSIVE Decimal(_)
Decimal(chars) ==
    IF Len(chars) = 0 THEN 0
    ELSE 10 * Decimal(SubSeq(chars, 1, Len(chars) - 1)) + DigitValue(chars[Len(chars)])

Signed(chars) == Len(chars) > 0 /\ chars[1] \in {"-", "+"}
Unsigned(chars) == IF Signed(chars) THEN SubSeq(chars, 2, Len(chars)) ELSE chars
Sign(chars) == IF Signed(chars) /\ chars[1] = "-" THEN -1 ELSE 1

\* int(x) of a string: ValueError unless it is a sign and digits
int(param) ==
    LET digits == Unsigned(param.chars)
    IN  IF ~param.present THEN [type |-> "TypeError"]
        ELSE IF Len(digits) = 0 \/ \E k \in 1..Len(digits) : ~IsDigit(digits[k])
        THEN [type |-> "ValueError"]
        ELSE [type |-> "int", value |-> Sign(param.chars) * Decimal(digits)]

\* float(x): TypeError for None, ValueError for a string that writes no
\* number; the value is in units of 0.00001
float(param) ==
    LET body == Unsigned(param.chars)
        points == {k \in 1..Len(body) : body[k] = "."}
        point == IF points = {} THEN Len(body) + 1 ELSE CHOOSE k \in points : TRUE
        whole == SubSeq(body, 1, point - 1)
        fraction == SubSeq(body, point + 1, Len(body))
        digits == whole \o fraction
        padded == SubSeq(fraction \o <<"0", "0", "0", "0", "0">>, 1, 5)
    IN  IF ~param.present THEN [type |-> "TypeError"]
        ELSE IF Cardinality(points) > 1 \/ Len(digits) = 0
                \/ \E k \in 1..Len(digits) : ~IsDigit(digits[k])
        THEN [type |-> "ValueError"]
        ELSE [type |-> "float",
              value |-> Sign(param.chars) * (100000 * Decimal(whole) + Decimal(padded))]

\* request.GET.get('radius', 3000)
radius_or_default(params) ==
    IF params.radius.present THEN int(params.radius) ELSE [type |-> "int", value |-> 3000]

\* lines 169-170 and 250-252: lat, lng and radius are converted in this
\* order, and the first conversion that raises leaves the try
converted(op, params) ==
    LET lat == float(params.lat)
        lng == float(params.lng)
        radius == IF op = "get_nearby_facilities" THEN radius_or_default(params)
                  ELSE [type |-> "int", value |-> 3000]
    IN  IF lat.type # "float" THEN [type |-> lat.type]
        ELSE IF lng.type # "float" THEN [type |-> lng.type]
        ELSE IF radius.type # "int" THEN [type |-> radius.type]
        ELSE [type |-> "converted", lat |-> lat.value, radius |-> radius.value]

RawLats == {Missing, Param(<<"a", "b", "c">>), Param(<<"0", ".", "0", "0", "0", "0", "7">>)}
RawLngs == {Missing, Param(<<"x">>), Param(<<"1", "2", "3", ".", "0">>)}
RawRadii ==
    {Missing, Param(<<"1", "0", "0", "0">>), Param(<<"0">>), Param(<<"-", "5">>),
     Param(<<"2", ".", "5">>)}

RawRequest(op, lat, lng, radius) ==
    [Request(op, 0, 0) EXCEPT !.pc = "arrived",
                              !.params = [lat |-> lat, lng |-> lng, radius |-> radius]]

\* a request arrives with whatever query string the client wrote
ArriveRaw ==
    /\ Len(requests) < MaxRequests
    /\ \E lat \in RawLats, lng \in RawLngs :
         \/ requests' = Append(requests, RawRequest("get_location_hazards", lat, lng, Missing))
         \/ \E radius \in RawRadii :
              requests' = Append(requests, RawRequest("get_nearby_facilities", lat, lng, radius))
    /\ UNCHANGED <<score_vars, env_vars, cache, written>>

\* the conversions at the head of both handlers and their except clauses:
\* ValueError answers 400 (lines 241-242, 425-426), any other exception 500
\* (lines 243-244, 427-431)
ConvertParams(i) ==
    /\ requests[i].pc = "arrived"
    /\ \E got \in {converted(requests[i].op, requests[i].params)} :
         requests' =
             IF got.type = "ValueError"
             THEN [requests EXCEPT ![i].pc = "done",
                                   ![i].response =
                                       Response(400, [type |-> "dict",
                                                      error |-> IF requests[i].op
                                                                     = "get_location_hazards"
                                                                THEN "Invalid coordinates"
                                                                ELSE "Invalid coordinates or radius"])]
             ELSE IF got.type = "TypeError"
             THEN [requests EXCEPT ![i].pc = "done",
                                   ![i].response = Response(500, [type |-> "dict",
                                                                  error |-> "TypeError"])]
             ELSE [requests EXCEPT ![i].pc = "received",
                                   ![i].lat = got.lat,
                                   ![i].radius = got.radius]
    /\ UNCHANGED <<score_vars, env_vars, cache, written>>

InitInput ==
    /\ flood_level \in {None, "HS"}
    /\ landslide_level = None
    /\ liquefaction_level = None
    /\ nearby_facilities = NoResult
    /\ risk = NoResult
    /\ risk_locals = NoResult
    /\ suit = NoResult
    /\ suit_locals = NoResult
    /\ prev_risk = NoResult
    /\ prev_suit = NoResult
    /\ recommendations = NoResult
    /\ pc = "start"
    /\ osm_data = SubSeq(KnownElements, 1, MaxElements)
    /\ hazard_store = {}
    /\ overpass = ServiceUp
    /\ cache = [k \in CacheKeys |-> NoneRec]
    /\ written = [k \in CacheKeys |-> {}]
    /\ requests = <<>>

NextInput ==
    \/ ArriveRaw
    \/ \E i \in 1..Len(requests) : ConvertParams(i)
    \/ \E i \in 1..Len(requests) : LH_Lookup(i)
    \/ \E i \in 1..Len(requests) : LH_Fetch(i)
    \/ \E i \in 1..Len(requests) : NF_Lookup(i)
    \/ \E i \in 1..Len(requests) : NF_Fetch(i)
    \/ \E i \in 1..Len(requests) : NF_Store(i)

SpecInput == InitInput /\ [][NextInput]_vars

(***************************************************************************)
(* The facility pipeline alone: the discovery service answers with any     *)
(* list of elements of the pool, query_facilities parses, deduplicates and *)
(* filters it, and get_nearby_facilities_for_suitability sorts and groups  *)
(* the facilities and extracts the nearest of each type.                   *)
(***************************************************************************)
MaxPipeElements == 3

\* elements at two latitudes inside the radius (equal latitudes give equal
\* distances), one element without coordinates, two ids met twice, one name
\* with the word 'Barangay' on an unmapped type, one element outside the radius
ElementPool ==
    { Element(1, "node", "amenity", "school", "Central School", 400),
      Element(1, "way", "amenity", "school", "Central School", 900),
      Element(2, "node", "amenity", "kindergarten", "", 400),
      Element(3, "node", "amenity", "hospital", "Provincial Hospital", 0),
      Element(3, "way", "amenity", "hospital", "Provincial Hospital", 900),
      Element(4, "node", "amenity", "pharmacy", "", 400),
      Element(5, "node", "amenity", "fire_station", "", 900),
      Element(6, "node", "amenity", "police", "", 400),
      Element(7, "node", "amenity", "post_office", "", 900),
      Element(8, "relation", "amenity", "townhall", "", 400),
      Element(9, "node", "amenity", "restaurant", "", 900),
      Element(10, "node", "amenity", "bench", "Barangay Hall Poblacion", 400),
      Element(11, "node", "shop", "supermarket", "", 400),
      Element(12, "node", "office", "government", "", 900),
      Element(13, "node", "amenity", "school", "Far School", 4200) }

InitFacilities ==
    /\ flood_level = None
    /\ landslide_level = None
    /\ liquefaction_level = None
    /\ nearby_facilities = NoResult
    /\ risk = NoResult
    /\ risk_locals = NoResult
    /\ suit = NoResult
    /\ suit_locals = NoResult
    /\ prev_risk = NoResult
    /\ prev_suit = NoResult
    /\ recommendations = NoResult
    /\ pc = "start"
    /\ osm_data \in UNION {[1..n -> ElementPool] : n \in 0..MaxPipeElements}
    /\ hazard_store = {}
    /\ overpass = ServiceUp
    /\ cache = [k \in CacheKeys |-> NoneRec]
    /\ written = [k \in CacheKeys |-> {}]
    /\ \E lat \in Lats :
         requests = <<Request("get_nearby_facilities_for_suitability", lat, 3000)>>

\* facilities = OverpassClient.query_facilities(lat, lng, 3000) (line 439)
QueryFacilities ==
    /\ requests[1].op = "get_nearby_facilities_for_suitability"
    /\ requests[1].pc = "received"
    /\ \E called \in {query_facilities_locals(overpass, osm_data, requests[1].lat,
                                               requests[1].radius)} :
         requests' = [requests EXCEPT
                        ![1].pc = "queried",
                        ![1].result = [type |-> "list",
                                       facilities |-> called.returned,
                                       posts |-> called.posts,
                                       sleeps |-> called.sleeps,
                                       exit |-> called.exit]]
    /\ UNCHANGED <<score_vars, env_vars, cache, written>>

\* lines 441-535: distances, sort, grouping, nearest of each type, return
GroupFacilities ==
    /\ requests[1].op = "get_nearby_facilities_for_suitability"
    /\ requests[1].pc = "queried"
    /\ \E locals \in {suitability_locals(requests[1].result.facilities, requests[1].lat)} :
         requests' = [requests EXCEPT ![1].pc = "done",
                                      ![1].result = locals,
                                      ![1].response = locals.returned]
    /\ UNCHANGED <<score_vars, env_vars, cache, written>>

NextFacilities == QueryFacilities \/ GroupFacilities

SpecFacilities == InitFacilities /\ [][NextFacilities]_vars

(***************************************************************************)
(* The smart filtering of query_facilities on crowded areas: the service   *)
(* answers with many schools, one hospital farther away than all of them,  *)
(* many restaurants and many government offices.                           *)
(***************************************************************************)
\* group sizes below, at and above the caps of lines 146-148
CriticalCrowds == {0, 1, 49, 50, 51}
EssentialCrowds == {0, 20, 21}
OtherCrowds == {0, 10, 11}

\* n elements of one type with ids from first_id + 1 at growing distances
Crowd(n, first_id, key, value, first_lat) ==
    [k \in 1..n |-> Element(first_id + k, "node", key, value, "", first_lat + k)]

\* the hospital is listed first or last by the service
CrowdedAreas ==
    { hospital \o Crowd(t[1], 100, "amenity", "school", 400)
               \o Crowd(t[2], 200, "amenity", "restaurant", 500)
               \o Crowd(t[3], 300, "office", "government", 600) :
        t \in CriticalCrowds \X EssentialCrowds \X OtherCrowds,
        hospital \in {<<>>, <<Element(1, "way", "amenity", "hospital", "", 2000)>>} }

InitFilter ==
    /\ flood_level = None
    /\ landslide_level = None
    /\ liquefaction_level = None
    /\ nearby_facilities = NoResult
    /\ risk = NoResult
    /\ risk_locals = NoResult
    /\ suit = NoResult
    /\ suit_locals = NoResult
    /\ prev_risk = NoResult
    /\ prev_suit = NoResult
    /\ recommendations = NoResult
    /\ pc = "start"
    /\ osm_data \in CrowdedAreas
    /\ hazard_store = {}
    /\ overpass = ServiceUp
    /\ cache = [k \in CacheKeys |-> NoneRec]
    /\ written = [k \in CacheKeys |-> {}]
    /\ \E lat \in Lats :
         requests = <<Request("get_nearby_facilities_for_suitability", lat, 3000)>>

SpecFilter == InitFilter /\ [][NextFacilities]_vars

(***************************************************************************)
(* One query of the discovery service: the service answers the POSTs of    *)
(* the query with any two of its responses.                                *)
(***************************************************************************)
\* success, an unparsable body, rate limiting, other failures, no answer in time
HttpResponses ==
    {HttpResponse(200, "json"), HttpResponse(200, "garbage"), HttpResponse(429, "garbage"),
     HttpResponse(500, "garbage"), Timeout}

InitQuery ==
    /\ flood_level = None
    /\ landslide_level = None
    /\ liquefaction_level = None
    /\ nearby_facilities = NoResult
    /\ risk = NoResult
    /\ risk_locals = NoResult
    /\ suit = NoResult
    /\ suit_locals = NoResult
    /\ prev_risk = NoResult
    /\ prev_suit = NoResult
    /\ recommendations = NoResult
    /\ pc = "start"
    /\ osm_data \in {SubSeq(KnownElements, 1, n) : n \in 0..MaxElements}
    /\ hazard_store = {}
    /\ overpass \in [1..max_retries -> HttpResponses]
    /\ cache = [k \in CacheKeys |-> NoneRec]
    /\ written = [k \in CacheKeys |-> {}]
    /\ \E lat \in Lats :
         requests = <<Request("get_nearby_facilities_for_suitability", lat, 3000)>>

SpecQuery == InitQuery /\ [][NextFacilities]_vars

(***************************************************************************)
(* The scoring pipeline as a state machine: the hazard levels and the      *)
(* facility summary are drawn in the initial state, calculate_risk_score   *)
(* runs to completion, then calculate_suitability_score runs on its        *)
(* result (get_location_hazards, lines 192 and 215-219).                   *)
(***************************************************************************)
MaxCount == 3
MaxEssential == 5
MaxDistExp == 2

Distances == {300 * 6^i : i \in 0..MaxDistExp}

\* the nearest-of-type entry of a group with that many members
NearestOf(count) ==
    IF count = 0 THEN {NoneRec} ELSE {build_facility_summary(d) : d \in Distances}

FacilitySummaries ==
    { FacilitySummary(ev, ho, NoneRec, c_ev, c_me, c_em, c_es, 0) :
        <<c_ev, c_me, c_em, c_es, ev, ho>> \in
          { t \in (0..MaxCount) \X (0..MaxCount) \X (0..MaxCount) \X (0..MaxEssential)
                   \X ({NoneRec} \cup NearestOf(1)) \X ({NoneRec} \cup NearestOf(1)) :
              t[5] \in NearestOf(t[1]) /\ t[6] \in NearestOf(t[2]) } }

ScoreInputs == FacilitySummaries \cup {FallbackFacilities, PlaceholderFacilities}

InitScore ==
    /\ flood_level \in FloodLevels
    /\ landslide_level \in LandslideLevels
    /\ liquefaction_level \in LiquefactionLevels
    /\ nearby_facilities \in ScoreInputs
    /\ risk = NoResult
    /\ risk_locals = NoResult
    /\ suit = NoResult
    /\ suit_locals = NoResult
    /\ prev_risk = NoResult
    /\ prev_suit = NoResult
    /\ recommendations = NoResult
    /\ pc = "start"
    /\ NoRequests

CalculateRisk ==
    /\ pc = "start"
    /\ risk' = calculate_risk_score(flood_level, landslide_level, liquefaction_level)
    /\ risk_locals' = calculate_risk_score_locals(flood_level, landslide_level, liquefaction_level)
    /\ pc' = "risk"
    /\ UNCHANGED <<flood_level, landslide_level, liquefaction_level, nearby_facilities,
                   suit, suit_locals, prev_risk>>
    /\ UNCHANGED <<recommendations, prev_suit, cache_vars>>

CalculateSuitability ==
    /\ pc = "risk"
    /\ suit' = calculate_suitability_score(risk, nearby_facilities)
    /\ suit_locals' = calculate_suitability_score_locals(risk, nearby_facilities)
    /\ pc' = "done"
    /\ UNCHANGED <<flood_level, landslide_level, liquefaction_level, nearby_facilities,
                   risk, risk_locals, prev_risk>>
    /\ UNCHANGED <<recommendations, prev_suit, cache_vars>>

NextScore == CalculateRisk \/ CalculateSuitability

SpecScore == InitScore /\ [][NextScore]_vars

(***************************************************************************)
(* calculate_risk_score alone: the hazard levels are drawn in the initial  *)
(* state, the function is applied, and it is applied again with a higher   *)
(* flood level and the same landslide and liquefaction levels.             *)
(***************************************************************************)
\* the order None < LS < MS < HS < VHS of the flood levels
FloodRank(level) ==
    CASE level = None -> 0
      [] level = "LS" -> 1
      [] level = "MS" -> 2
      [] level = "HS" -> 3
      [] level = "VHS" -> 4

InitRisk ==
    /\ flood_level \in FloodLevels
    /\ landslide_level \in LandslideLevels
    /\ liquefaction_level \in LiquefactionLevels
    /\ nearby_facilities = EmptySummary
    /\ risk = NoResult
    /\ risk_locals = NoResult
    /\ suit = NoResult
    /\ suit_locals = NoResult
    /\ prev_risk = NoResult
    /\ prev_suit = NoResult
    /\ recommendations = NoResult
    /\ pc = "start"
    /\ NoRequests

RaiseFlood ==
    /\ pc = "risk"
    /\ \E f2 \in FloodLevels :
         /\ FloodRank(f2) > FloodRank(flood_level)
         /\ flood_level' = f2
         /\ risk' = calculate_risk_score(f2, landslide_level, liquefaction_level)
         /\ risk_locals' = calculate_risk_score_locals(f2, landslide_level, liquefaction_level)
    /\ prev_risk' = [flood_level |-> flood_level, score |-> risk.score]
    /\ UNCHANGED <<landslide_level, liquefaction_level, nearby_facilities, suit, suit_locals, pc>>
    /\ UNCHANGED <<recommendations, prev_suit, cache_vars>>

NextRisk == CalculateRisk \/ RaiseFlood

SpecRisk == InitRisk /\ [][NextRisk]_vars

(***************************************************************************)
(* calculate_risk_score on level strings outside the enums: the function   *)
(* is applied to them, then applied again with every out-of-enum level     *)
(* replaced by None.                                                       *)
(***************************************************************************)
\* strings no enum holds; 'VHS' is no liquefaction level and 'DF' no flood level
UnknownLevels == {"XX", "hs"}
FloodInputs == FloodLevels \cup UnknownLevels \cup {"DF"}
LandslideInputs == LandslideLevels \cup UnknownLevels
LiquefactionInputs == LiquefactionLevels \cup UnknownLevels \cup {"VHS"}

\* the level itself when the enum holds it, None otherwise
InEnumOrNone(level, enum) == IF level \in enum THEN level ELSE None

InitEnum ==
    /\ flood_level \in FloodInputs
    /\ landslide_level \in LandslideInputs
    /\ liquefaction_level \in LiquefactionInputs
    /\ nearby_facilities = EmptySummary
    /\ risk = NoResult
    /\ risk_locals = NoResult
    /\ suit = NoResult
    /\ suit_locals = NoResult
    /\ prev_risk = NoResult
    /\ prev_suit = NoResult
    /\ recommendations = NoResult
    /\ pc = "start"
    /\ NoRequests

\* the second call, the out-of-enum levels of the first replaced by None
CalculateRiskInEnum ==
    /\ pc = "risk"
    /\ flood_level' = InEnumOrNone(flood_level, FloodLevels)
    /\ landslide_level' = InEnumOrNone(landslide_level, LandslideLevels)
    /\ liquefaction_level' = InEnumOrNone(liquefaction_level, LiquefactionLevels)
    /\ risk' = calculate_risk_score(flood_level', landslide_level', liquefaction_level')
    /\ risk_locals' = calculate_risk_score_locals(flood_level', landslide_level',
                                                  liquefaction_level')
    /\ prev_risk' = [flood_level |-> flood_level, landslide_level |-> landslide_level,
                     liquefaction_level |-> liquefaction_level,
                     score |-> risk.score, category |-> risk.category,
                     safety_level |-> risk.safety_level]
    /\ pc' = "in_enum"
    /\ UNCHANGED <<nearby_facilities, suit, suit_locals>>
    /\ UNCHANGED <<recommendations, prev_suit, cache_vars>>

NextEnum == CalculateRisk \/ CalculateRiskInEnum

SpecEnum == InitEnum /\ [][NextEnum]_vars

(***************************************************************************)
(* calculate_suitability_score on nearest-of-type distances around the     *)
(* ends of the two linear ranges and the band edges.                       *)
(***************************************************************************)
AccessDistances == {0, 500, 501, 1000, 1001, 1851, 2750, 4999, 5000, 9999, 10000, 10800}

NearestAt(count) ==
    IF count = 0 THEN {NoneRec} ELSE {build_facility_summary(d) : d \in AccessDistances}

AccessSummaries ==
    { FacilitySummary(ev, ho, NoneRec, c_ev, c_me, c_em, 0, 0) :
        <<c_ev, c_me, c_em, ev, ho>> \in
          { t \in (0..MaxCount) \X (0..MaxCount) \X (0..1)
                   \X ({NoneRec} \cup NearestAt(1)) \X ({NoneRec} \cup NearestAt(1)) :
              t[4] \in NearestAt(t[1]) /\ t[5] \in NearestAt(t[2]) } }

\* the summaries of a facility set, the fallback of line 212 and a dict
\* with no 'summary' and no 'counts' at all
InitSuit ==
    /\ flood_level \in FloodLevels
    /\ landslide_level \in LandslideLevels
    /\ liquefaction_level = None
    /\ nearby_facilities \in AccessSummaries \cup {FallbackFacilities, EmptyDict}
    /\ risk = NoResult
    /\ risk_locals = NoResult
    /\ suit = NoResult
    /\ suit_locals = NoResult
    /\ prev_risk = NoResult
    /\ prev_suit = NoResult
    /\ recommendations = NoResult
    /\ pc = "start"
    /\ NoRequests

SpecSuit == InitSuit /\ [][NextScore]_vars

(***************************************************************************)
(* calculate_suitability_score as a function of the risk assessment it is  *)
(* given: the assessment and the facility summary are drawn in the initial *)
(* state, the function is applied, and it is applied again to an           *)
(* assessment with a higher score and the same facility summary.           *)
(***************************************************************************)
\* the scores calculate_risk_score returns for the enum levels, and scores at
\* and next to the band edges and the 75 of the penalty
ReturnedScores ==
    {calculate_risk_score(f, l, q).score :
        <<f, l, q>> \in FloodLevels \X (LandslideLevels \ {"DF"}) \X LiquefactionLevels}
EdgeScores == {249, 250, 499, 500, 749, 750, 751}

\* hazard_data['overall_risk'] with that score, in tenths
Assessment(score) ==
    LET band == risk_category(<<score, 10>>)
    IN  [score |-> score, raw_score |-> score,
         category |-> band.category, safety_level |-> band.safety_level]

NonDFAssessments == {Assessment(score) : score \in ReturnedScores \cup EdgeScores}

\* nearest-of-type distances: closest, inside the linear ranges, out of reach
RiskSuitDistances == {0, 2750, 10800}

\* no facility at all (the three forms the handlers build) and summaries from
\* sparse to full groups
RiskSuitSummaries ==
    {EmptySummary, FallbackFacilities, EmptyDict}
      \cup { FacilitySummary(build_facility_summary(t[1]), build_facility_summary(t[2]),
                              NoneRec, t[3], t[4], t[5], t[6], 0) :
                t \in RiskSuitDistances \X RiskSuitDistances
                         \X {1, 3} \X {1, 2} \X {0, 2} \X {0, 5} }

InitSuitRisk ==
    /\ flood_level = None
    /\ landslide_level = None
    /\ liquefaction_level = None
    /\ nearby_facilities \in RiskSuitSummaries
    /\ risk \in NonDFAssessments \cup {calculate_risk_score(None, "DF", None)}
    /\ risk_locals = NoResult
    /\ suit = NoResult
    /\ suit_locals = NoResult
    /\ prev_risk = NoResult
    /\ prev_suit = NoResult
    /\ recommendations = NoResult
    /\ pc = "risk"
    /\ NoRequests

\* the second call: a non-DF assessment with a higher score, the same summary
RaiseRisk ==
    /\ pc = "done"
    /\ risk.safety_level # "EVACUATION REQUIRED"
    /\ \E r2 \in NonDFAssessments :
         /\ r2.score > risk.score
         /\ risk' = r2
         /\ suit' = calculate_suitability_score(r2, nearby_facilities)
         /\ suit_locals' = calculate_suitability_score_locals(r2, nearby_facilities)
    /\ prev_suit' = [risk_score |-> risk.score, score |-> suit.score,
                     category |-> suit.category]
    /\ pc' = "raised"
    /\ UNCHANGED <<flood_level, landslide_level, liquefaction_level, nearby_facilities,
                   risk_locals, prev_risk, recommendations, cache_vars>>

NextSuitRisk == CalculateSuitability \/ RaiseRisk

SpecSuitRisk == InitSuitRisk /\ [][NextSuitRisk]_vars

(***************************************************************************)
(* generate_smart_recommendations alone, on every combination of levels.   *)
(***************************************************************************)
InitRecs ==
    /\ flood_level \in FloodLevels
    /\ landslide_level \in LandslideLevels
    /\ liquefaction_level \in LiquefactionLevels
    /\ nearby_facilities = EmptySummary
    /\ risk = NoResult
    /\ risk_locals = NoResult
    /\ suit = NoResult
    /\ suit_locals = NoResult
    /\ prev_risk = NoResult
    /\ prev_suit = NoResult
    /\ recommendations = NoResult
    /\ pc = "start"
    /\ NoRequests

GenerateRecommendations ==
    /\ pc = "start"
    /\ recommendations' =
         [returned |-> generate_smart_recommendations(flood_level, landslide_level,
                                                      liquefaction_level),
          locals |-> recommendation_locals(flood_level, landslide_level, liquefaction_level)]
    /\ pc' = "recommended"
    /\ UNCHANGED <<flood_level, landslide_level, liquefaction_level, nearby_facilities,
                   risk, risk_locals, suit, suit_locals, prev_risk, prev_suit>>
    /\ UNCHANGED cache_vars

NextRecs == GenerateRecommendations

SpecRecs == InitRecs /\ [][NextRecs]_vars

(***************************************************************************)
(* Properties of the scoring engine.  Scores are in tenths: 1000 is 100.0. *)
(***************************************************************************)
RiskReturned == pc \in {"risk", "done"}
SuitReturned == pc = "done"
SuitBreakdownZero ==
    /\ suit.breakdown.safety = 0
    /\ suit.breakdown.accessibility = 0
    /\ suit.breakdown.infrastructure = 0

\* C1 - DF dominance: with landslide_level = 'DF', whatever the flood level,
\* the liquefaction level and the facility summary, calculate_risk_score
\* returns score 100, raw_score 100, 'CRITICAL - DEBRIS FLOW ZONE' and
\* 'EVACUATION REQUIRED', and calculate_suitability_score returns score 0,
\* 'NOT SUITABLE' and a breakdown of zeros without reading the facility
\* summary: none of its component locals is assigned and it does not raise
\* even on a summary whose evaluation raises.
Thm_C1_DFDominance ==
    landslide_level = "DF" =>
        /\ RiskReturned =>
              /\ risk.score = 1000
              /\ risk.raw_score = 1000
              /\ risk.category = "CRITICAL - DEBRIS FLOW ZONE"
              /\ risk.safety_level = "EVACUATION REQUIRED"
        /\ SuitReturned =>
              /\ suit.type = "dict"
              /\ suit.score = 0
              /\ suit.category = "NOT SUITABLE"
              /\ SuitBreakdownZero
              /\ suit_locals = [df |-> TRUE, raised |-> FALSE]

Wit_C1_DFDominance ==
    /\ pc = "done"
    /\ landslide_level = "DF"
    /\ flood_level = "HS"
    /\ liquefaction_level = "MS"
    /\ nearby_facilities = PlaceholderFacilities
    /\ risk.score = 1000
    /\ suit.score = 0

\* C2 - Bounds: for all enum levels and every facility summary with
\* non-negative distances and counts, 0 <= risk.score <= 100 and
\* 0 <= suitability.score <= 100.
Thm_C2_Bounds ==
    /\ RiskReturned => (0 <= risk.score /\ risk.score <= 1000)
    /\ (SuitReturned /\ nearby_facilities # PlaceholderFacilities) =>
          /\ suit.type = "dict"
          /\ 0 <= suit.score
          /\ suit.score <= 1000

\* no hazard at all and every facility group full and close: suitability 100.0
Wit_C2_Bounds ==
    /\ pc = "done"
    /\ nearby_facilities \notin {PlaceholderFacilities, FallbackFacilities}
    /\ nearby_facilities.counts.total > 0
    /\ risk.score = 0
    /\ suit.score = 1000

\* C3 as stated - Monotonicity including the step from None: raising
\* flood_level along None < LS < MS < HS < VHS with the other two levels
\* fixed never decreases the score of calculate_risk_score.
CE_C3_MonotoneFromNone ==
    prev_risk # NoResult => risk.score >= prev_risk.score

\* C3 amended - Monotonicity among present flood levels: raising flood_level
\* along LS < MS < HS < VHS (flood present before and after) with the other
\* two levels fixed never decreases the score of calculate_risk_score.
Thm_C3_MonotonePresent ==
    (prev_risk # NoResult /\ prev_risk.flood_level # None) =>
        risk.score >= prev_risk.score

Wit_C3_MonotonePresent ==
    /\ prev_risk # NoResult
    /\ prev_risk.flood_level = "LS"
    /\ flood_level = "VHS"
    /\ landslide_level = "VHS"
    /\ risk.score > prev_risk.score

\* the severities and weights as the specification lists them
SpecSeverity(level) ==
    CASE level = None -> 0
      [] level = "LS" -> 20
      [] level = "MS" -> 40
      [] level = "HS" -> 70
      [] level = "VHS" -> 100
SpecPresent(level) == level # None
SpecWeightedSum ==
    (IF SpecPresent(flood_level) THEN SpecSeverity(flood_level) * 60 ELSE 0)
  + (IF SpecPresent(landslide_level) THEN SpecSeverity(landslide_level) * 25 ELSE 0)
  + (IF SpecPresent(liquefaction_level) THEN SpecSeverity(liquefaction_level) * 15 ELSE 0)
SpecPresentWeight ==
    (IF SpecPresent(flood_level) THEN 60 ELSE 0)
  + (IF SpecPresent(landslide_level) THEN 25 ELSE 0)
  + (IF SpecPresent(liquefaction_level) THEN 15 ELSE 0)
SpecPresentLevels ==
    {h \in {<<"flood", flood_level>>, <<"landslide", landslide_level>>,
            <<"liquefaction", liquefaction_level>>} : SpecPresent(h[2])}
SpecHighCount ==
    (IF flood_level \in {"HS", "VHS"} THEN 1 ELSE 0)
  + (IF landslide_level \in {"HS", "VHS"} THEN 1 ELSE 0)
  + (IF liquefaction_level = "HS" THEN 1 ELSE 0)

NonDFRisk == pc = "risk" /\ landslide_level # "DF"

\* C7 - Dynamic weighting: for non-DF inputs the score before the combined
\* hazard penalty is (sum of severity*weight over present hazards) / (sum of
\* the weights of the present hazards); with exactly one hazard present the
\* returned score is that hazard's severity (flood VHS only: 100 VERY HIGH
\* RISK, flood MS only: 40 MODERATE RISK); with none present it is 0 LOW RISK.
Thm_C7_DynamicWeighting ==
    NonDFRisk =>
        /\ SpecPresentWeight > 0 =>
              risk_locals.normalized[1] * SpecPresentWeight
                = SpecWeightedSum * risk_locals.normalized[2]
        /\ SpecPresentWeight = 0 =>
              /\ risk_locals.normalized[1] = 0
              /\ risk.score = 0
              /\ risk.category = "LOW RISK"
        /\ \A h \in SpecPresentLevels :
              SpecPresentLevels = {h} => risk.score = 10 * SpecSeverity(h[2])
        /\ (flood_level = "VHS" /\ SpecPresentLevels = {<<"flood", "VHS">>}) =>
              (risk.score = 1000 /\ risk.category = "VERY HIGH RISK")
        /\ (flood_level = "MS" /\ SpecPresentLevels = {<<"flood", "MS">>}) =>
              (risk.score = 400 /\ risk.category = "MODERATE RISK")

Wit_C7_DynamicWeighting ==
    /\ NonDFRisk
    /\ flood_level = None
    /\ landslide_level = None
    /\ liquefaction_level = "HS"
    /\ risk.score = 700

Thm_C9_RiskBands ==
    NonDFRisk =>
        /\ (risk.category = "LOW RISK" /\ risk.safety_level = "SAFE") <=> risk.score < 250
        /\ (risk.category = "MODERATE RISK" /\ risk.safety_level = "CAUTION")
              <=> (250 <= risk.score /\ risk.score < 500)
        /\ (risk.category = "HIGH RISK" /\ risk.safety_level = "WARNING")
              <=> (500 <= risk.score /\ risk.score < 750)
        /\ (risk.category = "VERY HIGH RISK" /\ risk.safety_level = "DANGER")
              <=> risk.score >= 750

\* a score exactly on a band edge: 25.0 is MODERATE RISK
Wit_C9_RiskBands ==
    /\ NonDFRisk
    /\ risk.score = 250
    /\ risk.category = "MODERATE RISK"

\* C10 - Suitability total: when safety_level is not 'EVACUATION REQUIRED'
\* the suitability score is safety + accessibility_component +
\* infrastructure_component with safety = (100 - risk.score) * 0.6, times 0.8
\* if and only if risk.score >= 75; the breakdown reports the three
\* components before that penalty.  (Facility summaries as the facility
\* pipeline or its fallback build them.)
Thm_C10_SuitabilityTotal ==
    (/\ SuitReturned
     /\ risk.safety_level # "EVACUATION REQUIRED"
     /\ nearby_facilities # PlaceholderFacilities) =>
        LET safety == suit_locals.safety_score
            sum == FracAdd(safety, FracAdd(suit_locals.accessibility_component,
                                           suit_locals.infrastructure_component))
            penalised == <<sum[1] * 8, sum[2] * 10>>
        IN  /\ suit.type = "dict"
            /\ safety[1] * 100 = (1000 - risk.score) * 6 * safety[2]
            /\ risk.score >= 750 => suit.score = Round1(penalised)
            /\ risk.score < 750 => suit.score = Round1(sum)
            /\ suit.breakdown.safety = Round1(safety)
            /\ suit.breakdown.accessibility = Round1(suit_locals.accessibility_component)
            /\ suit.breakdown.infrastructure = Round1(suit_locals.infrastructure_component)

\* very high risk (76.0) with nearby facilities: the penalty has been applied,
\* the breakdown still adds up to more than the score
Wit_C10_SuitabilityTotal ==
    /\ pc = "done"
    /\ nearby_facilities # PlaceholderFacilities
    /\ risk.score = 760
    /\ risk.safety_level = "DANGER"
    /\ suit.breakdown.accessibility > 0
    /\ suit.breakdown.infrastructure > 0
    /\ suit.score < suit.breakdown.safety + suit.breakdown.accessibility
                     + suit.breakdown.infrastructure

(***************************************************************************)
(* Properties of the handlers and the cache.                               *)
(***************************************************************************)
Done(i, op) == requests[i].op = op /\ requests[i].pc = "done"
AssessmentFields == {"overall_risk", "suitability", "flood", "landslide", "liquefaction"}

\* C4 - After any sequence of get_nearby_facilities and get_location_hazards
\* requests sharing the cache, every get_location_hazards request with valid
\* lat/lng returns a complete assessment (overall_risk, suitability, flood,
\* landslide, liquefaction) and never an error response, also when it finds
\* under the location key an entry written by get_nearby_facilities.
CE_C4_CompleteAssessment ==
    \A i \in 1..Len(requests) :
        Done(i, "get_location_hazards") =>
            /\ requests[i].response.status = 200
            /\ AssessmentFields \subseteq DOMAIN requests[i].response.data

\* C5 - The cache is never a correctness dependency: with the facility data
\* unchanged, a get_nearby_facilities response served from the cache equals
\* the response a fresh computation for the same (lat, lng, radius) produces;
\* requests for one rounded location with different radii each get the result
\* for their own radius.
CE_C5_CacheTransparent ==
    \A i \in 1..Len(requests) :
        (Done(i, "get_nearby_facilities") /\ requests[i].from_cache) =>
            requests[i].response.data
              = FreshNearbyResult(requests[i].lat, requests[i].radius)

\* C6 - Last-write-wins is harmless: for any interleaving of
\* get_location_hazards and get_nearby_facilities requests for the same rounded
\* location against unchanged data, all writes to one cache key store equal
\* values, so the cache content does not depend on which write lands last.
CE_C6_WritesAgree ==
    \A k \in CacheKeys : Cardinality(written[k]) <= 1

(***************************************************************************)
(* Properties of calculate_suitability_score (bands and accessibility).    *)
(***************************************************************************)
\* the bands as the specification states them, on a score in tenths
SpecSuitBand(score) ==
    IF score >= 700 THEN "HIGHLY SUITABLE"
    ELSE IF score >= 500 THEN "MODERATELY SUITABLE"
    ELSE IF score >= 300 THEN "MARGINALLY SUITABLE"
    ELSE "NOT SUITABLE"

\* C11 - Suitability bands: in every assessment calculate_suitability_score
\* returns, the category agrees with the returned score: HIGHLY SUITABLE iff
\* score >= 70, MODERATELY SUITABLE iff 50 <= score < 70, MARGINALLY SUITABLE
\* iff 30 <= score < 50, NOT SUITABLE iff score < 30.
CE_C11_SuitabilityBands ==
    (SuitReturned /\ suit.type = "dict") => suit.category = SpecSuitBand(suit.score)

\* the sub-scores as the specification states them: 100 up to lo metres,
\* 0 from hi metres, linear in between
SpecSubScore(distance_meters, lo, hi) ==
    IF distance_meters <= lo THEN FracInt(100)
    ELSE IF distance_meters >= hi THEN FracInt(0)
    ELSE FracNorm(<<100 * (hi - distance_meters), hi - lo>>)

SpecNearest(nf, key) ==
    IF "summary" \in DOMAIN nf /\ key \in DOMAIN nf.summary THEN nf.summary[key] ELSE NoneRec

SpecEvacSubScore(nf) ==
    LET e == SpecNearest(nf, "nearest_evacuation")
    IN  IF e = NoneRec THEN FracInt(0) ELSE SpecSubScore(e.distance_meters, 500, 5000)

SpecHospSubScore(nf) ==
    LET h == SpecNearest(nf, "nearest_hospital")
    IN  IF h = NoneRec THEN FracInt(0) ELSE SpecSubScore(h.distance_meters, 1000, 10000)

\* C12 - Accessibility component: the evacuation sub-score is 100 at <= 500 m,
\* 0 at >= 5000 m and linear in between; the hospital sub-score is 100 at
\* <= 1000 m, 0 at >= 10000 m and linear in between; a missing nearest entry
\* (None, or no summary at all) contributes 0; accessibility_component is
\* (evac*0.5 + hosp*0.5) * 0.2 and lies within [0, 20].
Thm_C12_Accessibility ==
    (SuitReturned /\ ~suit_locals.df /\ ~suit_locals.raised) =>
        LET evac == SpecEvacSubScore(nearby_facilities)
            hosp == SpecHospSubScore(nearby_facilities)
            acc == suit_locals.accessibility_component
        IN  /\ FracEq(FracMul(acc, FracInt(10)), FracAdd(evac, hosp))
            /\ FracLe(FracInt(0), acc)
            /\ FracLe(acc, FracInt(20))
            /\ suit.breakdown.accessibility = Round1(acc)

\* an evacuation center and a hospital both inside their linear ranges
Wit_C12_Accessibility ==
    /\ SuitReturned
    /\ ~suit_locals.df
    /\ nearby_facilities \notin {FallbackFacilities, EmptyDict}
    /\ nearby_facilities.summary.nearest_evacuation # NoneRec
    /\ nearby_facilities.summary.nearest_hospital # NoneRec
    /\ nearby_facilities.summary.nearest_evacuation.distance_meters = 2750
    /\ nearby_facilities.summary.nearest_hospital.distance_meters = 9999
    /\ suit_locals.accessibility_component = <<4501, 900>>

(***************************************************************************)
(* Properties of the facility pipeline.                                    *)
(***************************************************************************)
\* a nearest-of-type record of the summary, or None
IsNearestRecord(r) == r = NoneRec \/ (r.type = "dict" /\ "distance_meters" \in DOMAIN r)

\* the summary and the counts a result of get_nearby_facilities must carry
HasSummaryAndCounts(result) ==
    /\ result.summary.type = "dict"
    /\ {"nearest_evacuation", "nearest_hospital", "nearest_fire_station"}
         \subseteq DOMAIN result.summary
    /\ IsNearestRecord(result.summary.nearest_evacuation)
    /\ IsNearestRecord(result.summary.nearest_hospital)
    /\ IsNearestRecord(result.summary.nearest_fire_station)
    /\ result.counts.type = "dict"
    /\ {"evacuation", "medical", "emergency_services", "essential", "other", "total"}
         \subseteq DOMAIN result.counts
    /\ result.counts.evacuation = Len(result.evacuation_centers)
    /\ result.counts.medical = Len(result.medical)
    /\ result.counts.emergency_services = Len(result.emergency_services)
    /\ result.counts.essential = Len(result.essential_services)
    /\ result.counts.other = Len(result.other)
    /\ result.counts.total
         = Len(result.evacuation_centers) + Len(result.medical)
           + Len(result.emergency_services) + Len(result.essential_services)
           + Len(result.other)

\* C13 - For a non-empty facility set, the response get_nearby_facilities
\* returns, and the value it writes to the cache, contain a summary with the
\* nearest_evacuation, nearest_hospital and nearest_fire_station records (or
\* None) and counts whose five group counts equal the lengths of the five
\* groups and whose total is the number of facilities.
CE_C13_SummaryAndCounts ==
    \A i \in 1..Len(requests) :
        (/\ Done(i, "get_nearby_facilities")
         /\ ~requests[i].from_cache
         /\ "error" \notin DOMAIN requests[i].response.data) =>
            /\ HasSummaryAndCounts(requests[i].response.data)
            /\ \A v \in written[cache_key_full(requests[i].lat)] : HasSummaryAndCounts(v)

\* the request of the facility pipeline, the elements the service answered
\* with, and the positions of the pipeline
Pipe == requests[1]
Answered == OverpassResponse(osm_data, Pipe.lat, Pipe.radius)
FacilitiesQueried == Pipe.op = "get_nearby_facilities_for_suitability" /\ Pipe.pc = "queried"
FacilitiesGrouped == Pipe.op = "get_nearby_facilities_for_suitability" /\ Pipe.pc = "done"
GroupFields ==
    {"evacuation_centers", "medical", "emergency_services", "essential_services",
     "other_facilities"}

\* C14 - Grouping exhaustiveness: the grouping step places each facility in
\* exactly one of evacuation, medical, emergency_services, essential, other,
\* and counts.evacuation + counts.medical + counts.emergency_services
\* + counts.essential + counts.other = counts.total = number of input
\* facilities.
Thm_C14_GroupingExhaustive ==
    FacilitiesGrouped =>
        LET L == Pipe.result
            counts == L.returned.counts
        IN  /\ \A k \in 1..Len(L.facilities) :
                 Cardinality({g \in GroupFields :
                                \E j \in 1..Len(L[g]) : L[g][j].osm_id = L.facilities[k].osm_id})
                   = 1
            /\ counts.evacuation + counts.medical + counts.emergency_services
                 + counts.essential + counts.other = counts.total
            /\ counts.total = Len(L.facilities)

\* three facilities, one of them of a type no grouping rule names
Wit_C14_GroupingExhaustive ==
    /\ FacilitiesGrouped
    /\ Len(Pipe.result.facilities) = 3
    /\ Len(Pipe.result.other_facilities) = 1
    /\ Pipe.result.other_facilities[1].facility_type = "townhall"
    /\ Pipe.result.returned.counts.total = 3

\* the grouping rule of the specification, by raw type
SpecGroupOfType(facility_type) ==
    IF facility_type \in {"school", "community_centre", "kindergarten", "college", "university"}
    THEN "evacuation"
    ELSE IF facility_type \in {"hospital", "clinic", "doctors", "pharmacy"}
    THEN "medical"
    ELSE IF facility_type \in {"fire_station", "police"}
    THEN "emergency_services"
    ELSE IF facility_type \in {"marketplace", "supermarket", "convenience", "bank", "fuel",
                               "restaurant", "fast_food", "cafe", "mall", "atm",
                               "department_store"}
    THEN "essential"
    ELSE "other"

\* C15 - Grouping rule: every facility the classifier produces is grouped by
\* its raw type, first match winning: evacuation holds only school,
\* community_centre, kindergarten, college, university; medical only
\* hospital, clinic, doctors, pharmacy; emergency_services only fire_station,
\* police; essential only the eleven listed types; and a facility of any
\* other recognized type (post_office, ferry_terminal, townhall,
\* public_building, government office) lands in other.
CE_C15_GroupingRule ==
    FacilitiesGrouped =>
        \A k \in 1..Len(Pipe.result.facilities) :
            Pipe.result.facilities[k].subcategory
              = SpecGroupOfType(Pipe.result.facilities[k].facility_type)

\* the position in the answer of the element a facility was built from: the
\* first element with its id that classifies
DiscoveryIndex(f) ==
    CHOOSE i \in 1..Len(Answered) :
        /\ Answered[i].id = f.osm_id
        /\ parse_element(Answered[i]) # NoneRec
        /\ \A j \in 1..(i - 1) :
             ~(Answered[j].id = f.osm_id /\ parse_element(Answered[j]) # NoneRec)

\* C16 - Each of the five groups is sorted ascending by distance_meters, and
\* two facilities of one group at equal distance appear in their original
\* discovery order, through the whole pipeline query_facilities -> sort ->
\* grouping.
CE_C16_SortedStable ==
    FacilitiesGrouped =>
        \A g \in GroupFields :
            \A a, b \in 1..Len(Pipe.result[g]) :
                a < b =>
                    /\ Pipe.result[g][a].distance_meters <= Pipe.result[g][b].distance_meters
                    /\ Pipe.result[g][a].distance_meters = Pipe.result[g][b].distance_meters
                         => DiscoveryIndex(Pipe.result[g][a]) < DiscoveryIndex(Pipe.result[g][b])

\* the entry of a group the summary must name: None for no candidate, else a
\* candidate no other candidate is nearer than
IsNearestAmong(nearest, group, candidates) ==
    IF candidates = {} THEN nearest = NoneRec
    ELSE /\ nearest # NoneRec
         /\ \E k \in candidates :
              /\ nearest = group[k]
              /\ \A j \in 1..(k - 1) : j \notin candidates
         /\ \A k \in candidates : nearest.distance_meters <= group[k].distance_meters

AllOf(group) == 1..Len(group)
FireStationsOf(group) == {k \in 1..Len(group) : group[k].facility_type = "fire_station"}

SummaryNames(summary_entry, nearest) ==
    IF nearest = NoneRec THEN summary_entry = NoneRec
    ELSE summary_entry # NoneRec /\ summary_entry.distance_meters = nearest.distance_meters

\* C17 - Nearest-of-type extraction: nearest_evacuation is the first
\* (minimum-distance) entry of the evacuation group or None if it is empty;
\* nearest_hospital is the first entry of the medical group whatever its type,
\* or None; nearest_fire_station is the minimum-distance emergency_services
\* entry whose type is fire_station, never a police station, and None when
\* the group holds only police.
Thm_C17_NearestOfType ==
    FacilitiesGrouped =>
        LET L == Pipe.result
        IN  /\ IsNearestAmong(L.nearest_evacuation, L.evacuation_centers, AllOf(L.evacuation_centers))
            /\ L.nearest_evacuation # NoneRec => L.nearest_evacuation = L.evacuation_centers[1]
            /\ IsNearestAmong(L.nearest_hospital, L.medical, AllOf(L.medical))
            /\ L.nearest_hospital # NoneRec => L.nearest_hospital = L.medical[1]
            /\ IsNearestAmong(L.nearest_fire, L.emergency_services,
                              FireStationsOf(L.emergency_services))
            /\ L.nearest_fire # NoneRec => L.nearest_fire.facility_type = "fire_station"
            /\ SummaryNames(L.returned.summary.nearest_evacuation, L.nearest_evacuation)
            /\ SummaryNames(L.returned.summary.nearest_hospital, L.nearest_hospital)
            /\ SummaryNames(L.returned.summary.nearest_fire_station, L.nearest_fire)

\* a police station nearer than the fire station, and a pharmacy as the
\* nearest medical facility
Wit_C17_NearestOfType ==
    /\ FacilitiesGrouped
    /\ Len(Pipe.result.emergency_services) = 2
    /\ Pipe.result.emergency_services[1].facility_type = "police"
    /\ Pipe.result.nearest_fire # NoneRec
    /\ Pipe.result.nearest_fire.facility_type = "fire_station"
    /\ Pipe.result.nearest_hospital # NoneRec
    /\ Pipe.result.nearest_hospital.facility_type = "pharmacy"

Classifies(e) == parse_element(e) # NoneRec

\* C18 - Deduplication: the list query_facilities returns holds no two
\* facilities with the same source id; when an id occurs several times the
\* first element with that id that classifies to a facility is the one kept
\* and later ones are not counted.
Thm_C18_Deduplication ==
    FacilitiesQueried =>
        LET F == Pipe.result.facilities
        IN  /\ \A a, b \in 1..Len(F) : a # b => F[a].osm_id # F[b].osm_id
            /\ {F[a].osm_id : a \in 1..Len(F)}
                 = {Answered[i].id : i \in {j \in 1..Len(Answered) : Classifies(Answered[j])}}
            /\ \A a \in 1..Len(F) :
                 /\ F[a].osm_type = Answered[DiscoveryIndex(F[a])].type
                 /\ F[a].lat = Answered[DiscoveryIndex(F[a])].lat

\* the school met as a way and then as a node, after the hospital node
\* without coordinates and the hospital way
Wit_C18_Deduplication ==
    /\ FacilitiesQueried
    /\ Len(Answered) = 3
    /\ Answered[1].id = 1 /\ Answered[1].type = "way"
    /\ Answered[2].id = 1 /\ Answered[2].type = "node"
    /\ Answered[3].id = 2
    /\ Len(Pipe.result.facilities) = 2

\* the names of the pool that contain the keyword 'barangay'
ContainsBarangay(name) == name \in {"Barangay Hall Poblacion"}
RecognizedTypes == DOMAIN AMENITY_MAPPING \cup DOMAIN SHOP_MAPPING \cup DOMAIN OFFICE_MAPPING

\* C19 - Classification of unrecognized types: an element whose type tag is
\* not in the static mapping is dropped, unless its name contains a
\* recognized keyword: an element with no matched type whose name contains
\* 'barangay' is returned as a government facility 'Barangay Hall'.
CE_C19_KeywordClassification ==
    FacilitiesQueried =>
        LET F == Pipe.result.facilities
        IN  \A i \in 1..Len(Answered) :
                Answered[i].value \notin RecognizedTypes =>
                    IF ContainsBarangay(Answered[i].name)
                    THEN \E a \in 1..Len(F) :
                            /\ F[a].osm_id = Answered[i].id
                            /\ F[a].category = "government"
                            /\ F[a].type_display = "Barangay Hall"
                    ELSE \A a \in 1..Len(F) :
                            F[a].osm_id = Answered[i].id => F[a].facility_type \in RecognizedTypes

(***************************************************************************)
(* Properties of generate_smart_recommendations.                           *)
(***************************************************************************)
\* high_risks and the labels as the specification states them
SpecHighRisks ==
    SelectSeq(<<"flood", "landslide", "liquefaction">>,
              LAMBDA h : \/ h = "flood" /\ flood_level \in {"HS", "VHS"}
                         \/ h = "landslide" /\ landslide_level \in {"HS", "VHS", "DF"}
                         \/ h = "liquefaction" /\ liquefaction_level = "HS")

SpecLabel(h) ==
    CASE h = "flood" /\ flood_level = "VHS" -> "VERY HIGH FLOOD RISK"
      [] h = "flood" /\ flood_level = "HS" -> "HIGH FLOOD RISK"
      [] h = "landslide" /\ landslide_level = "DF" -> "DEBRIS FLOW ZONE"
      [] h = "landslide" /\ landslide_level = "VHS" -> "VERY HIGH LANDSLIDE RISK"
      [] h = "landslide" /\ landslide_level = "HS" -> "HIGH LANDSLIDE RISK"
      [] h = "liquefaction" -> "HIGH LIQUEFACTION RISK"

SpecJoined(labels) ==
    CASE Len(labels) = 1 -> labels[1]
      [] Len(labels) = 2 -> labels[1] \o " + " \o labels[2]
      [] Len(labels) = 3 -> labels[1] \o " + " \o labels[2] \o " + " \o labels[3]

\* C20 - Recommendation assembly: with high_risks = {flood if level in
\* {HS,VHS}} + {landslide if level in {HS,VHS,DF}} + {liquefaction if level
\* = HS} non-empty, generate_smart_recommendations emits exactly one block
\* and one summary label per member of high_risks, in the order flood,
\* landslide, liquefaction, the label distinguishing VHS from HS flood and DF
\* from VHS from HS landslide; the summary is these labels joined by ' + ';
\* and the 'MULTIPLE HAZARD EXPOSURE' block is appended if and only if
\* |high_risks| >= 2.
Thm_C20_RecommendationAssembly ==
    (pc = "recommended" /\ SpecHighRisks # <<>>) =>
        LET n == Len(SpecHighRisks)
            labels == [k \in 1..n |-> SpecLabel(SpecHighRisks[k])]
            returned == recommendations.returned
            hazard_blocks == SelectSeq(returned.details,
                                       LAMBDA b : b # "MULTIPLE HAZARD EXPOSURE")
        IN  /\ recommendations.locals.high_risks = SpecHighRisks
            /\ recommendations.locals.rec_summary_parts = labels
            /\ returned.summary = SpecJoined(labels)
            /\ Len(hazard_blocks) = n
            /\ \A k \in 1..n :
                 hazard_blocks[k] = IF labels[k] = "DEBRIS FLOW ZONE"
                                    THEN "DEBRIS FLOW HAZARD ZONE" ELSE labels[k]
            /\ Len(returned.details) = n + (IF n >= 2 THEN 1 ELSE 0)
            /\ n >= 2 <=> InSeq("MULTIPLE HAZARD EXPOSURE", returned.details)
            /\ n >= 2 => returned.details[n + 1] = "MULTIPLE HAZARD EXPOSURE"

\* the example of the specification, and a debris flow with a high flood
Wit_C20_RecommendationAssembly ==
    /\ pc = "recommended"
    /\ flood_level = "VHS"
    /\ landslide_level = "DF"
    /\ liquefaction_level = "HS"
    /\ recommendations.returned.summary
         = "VERY HIGH FLOOD RISK + DEBRIS FLOW ZONE + HIGH LIQUEFACTION RISK"
    /\ Len(recommendations.returned.details) = 4

(***************************************************************************)
(* Properties of calculate_risk_score on out-of-enum levels.               *)
(***************************************************************************)
\* C24 - Out-of-enum levels default to safe: calculate_risk_score invoked
\* with a level string outside the enum (for any of the three hazards, the
\* other levels arbitrary and non-DF) does not raise and treats that level as
\* 'no hazard / safe' with severity 0, so the returned score and category
\* equal those returned when that level is None.
CE_C24_OutOfEnumAsNone ==
    (pc = "in_enum" /\ prev_risk.landslide_level # "DF") =>
        /\ risk.score = prev_risk.score
        /\ risk.category = prev_risk.category

(***************************************************************************)
(* Properties of calculate_risk_score and its recommendations.             *)
(***************************************************************************)
RiskLabels ==
    {"VERY HIGH FLOOD RISK", "HIGH FLOOD RISK", "DEBRIS FLOW ZONE",
     "VERY HIGH LANDSLIDE RISK", "HIGH LANDSLIDE RISK", "HIGH LIQUEFACTION RISK"}

\* the sequences of n labels a summary is the ' + ' join of
LabelsJoinedIn(summary, n) == {parts \in [1..n -> RiskLabels] : Join(" + ", parts) = summary}

\* the number of labels in a summary, 0 when it is no join of labels
LabelCount(summary) ==
    IF \E n \in 1..3 : LabelsJoinedIn(summary, n) # {}
    THEN CHOOSE n \in 1..3 : LabelsJoinedIn(summary, n) # {}
    ELSE 0

\* C28 - The two independent high-hazard determinations agree: for every
\* non-DF combination of enum levels, the assessment calculate_risk_score
\* returns has the combined-hazard multiplier applied to its score if and
\* only if its recommendation_details contains the 'MULTIPLE HAZARD EXPOSURE'
\* block, and the number of labels in recommendation_summary equals the
\* high-hazard count used for the penalty; the DF branch of
\* generate_smart_recommendations is never reached from calculate_risk_score.
Thm_C28_HighHazardsAgree ==
    /\ NonDFRisk =>
          LET count == risk_locals.high_hazards_count
              base == risk_locals.normalized
              scaled == FracMin(FracInt(100), <<base[1] * 5, base[2] * 4>>)
              applied == count >= 2
          IN  /\ applied => FracEq(risk_locals.final_score, scaled)
              /\ ~applied => FracEq(risk_locals.final_score, base)
              /\ applied <=> InSeq("MULTIPLE HAZARD EXPOSURE", risk.recommendation_details)
              /\ LabelCount(risk.recommendation_summary) = count
              /\ Len(risk_locals.rec_call.high_risks) = count
              /\ ~InSeq("DEBRIS FLOW ZONE", risk_locals.rec_call.rec_summary_parts)
              /\ ~InSeq("DEBRIS FLOW HAZARD ZONE", risk.recommendation_details)
    /\ (pc = "risk" /\ landslide_level = "DF") =>
          /\ "rec_call" \notin DOMAIN risk_locals
          /\ risk.recommendation_summary = generate_debris_flow_critical_warning.summary
          /\ ~InSeq("DEBRIS FLOW HAZARD ZONE", risk.recommendation_details)

\* high flood and high liquefaction: the penalty and the block, two labels
Wit_C28_HighHazardsAgree ==
    /\ NonDFRisk
    /\ flood_level = "HS"
    /\ landslide_level = None
    /\ liquefaction_level = "HS"
    /\ risk.score = 875
    /\ risk.recommendation_summary = "HIGH FLOOD RISK + HIGH LIQUEFACTION RISK"
    /\ InSeq("MULTIPLE HAZARD EXPOSURE", risk.recommendation_details)

(***************************************************************************)
(* Properties of calculate_suitability_score as a function of the risk.    *)
(***************************************************************************)
SuitComputed == pc \in {"done", "raised"}

\* C29 - A very-high-risk location is never rated suitable: for every risk
\* assessment with score >= 75 and every facility summary,
\* calculate_suitability_score returns score <= 44 and a category in
\* {MARGINALLY SUITABLE, NOT SUITABLE}; and with an empty facility summary the
\* score never exceeds 60, so HIGHLY SUITABLE is unreachable without
\* facilities.
Thm_C29_VeryHighRiskNeverSuitable ==
    SuitComputed =>
        /\ suit.type = "dict"
        /\ risk.score >= 750 =>
              /\ suit.score <= 440
              /\ suit.category \in {"MARGINALLY SUITABLE", "NOT SUITABLE"}
        /\ nearby_facilities \in {EmptySummary, FallbackFacilities, EmptyDict} =>
              /\ suit.score <= 600
              /\ suit.category # "HIGHLY SUITABLE"

\* risk exactly 75 with every group full and within reach: 44.0, the maximum
Wit_C29_VeryHighRiskNeverSuitable ==
    /\ pc = "done"
    /\ risk.score = 750
    /\ nearby_facilities \notin {EmptySummary, FallbackFacilities, EmptyDict}
    /\ suit.score = 440
    /\ suit.category = "MARGINALLY SUITABLE"

\* C30 - Suitability is monotone in risk: for every fixed facility summary
\* and any two non-DF risk assessments with scores r1 <= r2,
\* calculate_suitability_score returns a score for r2 that is not greater
\* than the score for r1, including across the threshold r = 75 where the
\* 0.8 penalty starts to apply.
Thm_C30_MonotoneInRisk ==
    pc = "raised" =>
        /\ prev_suit.risk_score <= risk.score
        /\ suit.score <= prev_suit.score

\* across the threshold: from 74.9 to 75.0 the penalty sets in
Wit_C30_MonotoneInRisk ==
    /\ pc = "raised"
    /\ prev_suit.risk_score = 749
    /\ risk.score = 750
    /\ nearby_facilities = EmptySummary
    /\ prev_suit.score = 151
    /\ suit.score = 120

(***************************************************************************)
(* Properties of the exchange with the discovery service.                  *)
(***************************************************************************)
\* the response the query ends on: the second one after a 429, else the first
LastResponse == IF StatusCode(overpass[1]) = 429 THEN overpass[2] ELSE overpass[1]

\* C25 - query_facilities always terminates without raising: it issues at
\* most 2 HTTP requests per call; a 429 on the first attempt leads to exactly
\* one retry after a delay, a 429 on the last attempt returns the empty list;
\* a timeout, any other non-success status, or a response body that cannot be
\* parsed returns the empty list; a successful response is never retried.
Thm_C25_QueryTerminates ==
    FacilitiesQueried =>
        LET called == Pipe.result
        IN  /\ called.type = "list"
            /\ called.posts \in 1..2
            /\ StatusCode(overpass[1]) = 429 =>
                  (called.posts = 2 /\ Len(called.sleeps) = 1 /\ called.sleeps[1] > 0)
            /\ StatusCode(overpass[1]) # 429 =>
                  (called.posts = 1 /\ called.sleeps = <<>>)
            /\ (StatusCode(overpass[1]) = 429 /\ StatusCode(overpass[2]) = 429) =>
                  called.facilities = <<>>
            /\ (\/ LastResponse = Timeout
                \/ StatusCode(LastResponse) \notin {0, 200}
                \/ (StatusCode(LastResponse) = 200 /\ LastResponse.body # "json")) =>
                  called.facilities = <<>>
            /\ LastResponse = HttpResponse(200, "json") =>
                  called.facilities = query_facilities(osm_data, Pipe.lat, Pipe.radius)

\* rate limited once, then served: two POSTs, one sleep, the facilities returned
Wit_C25_QueryTerminates ==
    /\ FacilitiesQueried
    /\ overpass = <<HttpResponse(429, "garbage"), HttpResponse(200, "json")>>
    /\ Pipe.result.posts = 2
    /\ Pipe.result.sleeps = <<2>>
    /\ Len(Pipe.result.facilities) = 3

(***************************************************************************)
(* Properties of the smart filtering.                                      *)
(***************************************************************************)
\* the parsed, deduplicated facilities of the answer, before the filtering
Discovered == ParseAll(Answered, Pipe.lat, <<>>, {})

Returned(f) ==
    \E j \in 1..Len(Pipe.result.facilities) : Pipe.result.facilities[j].osm_id = f.osm_id

\* the facilities of a class that are returned, and the n nearest of the class
ReturnedOf(class) == {k \in class : Returned(Discovered[k])}
NearestOf_n(class, n) ==
    {k \in class :
        Cardinality({j \in class :
                       \/ Discovered[j].straight_distance < Discovered[k].straight_distance
                       \/ (Discovered[j].straight_distance = Discovered[k].straight_distance
                           /\ j < k)}) < n}

\* C26 - Smart filtering in query_facilities keeps all critical facilities:
\* every parsed, deduplicated facility with priority <= 2 is in the returned
\* list, whatever the number discovered, while essential facilities are
\* limited to the 20 nearest and other facilities to the 10 nearest;
\* consequently the nearest facility of each critical type among those
\* discovered is always in the returned list.
CE_C26_AllCriticalKept ==
    FacilitiesQueried =>
        LET all == 1..Len(Discovered)
            critical == {k \in all : Discovered[k].priority <= 2}
            essential == {k \in all \ critical : Discovered[k].subcategory = "essential"}
            other == (all \ critical) \ essential
        IN  /\ ReturnedOf(critical) = critical
            /\ ReturnedOf(essential) = NearestOf_n(essential, 20)
            /\ ReturnedOf(other) = NearestOf_n(other, 10)
            /\ \A k \in critical :
                 (\A j \in critical :
                    Discovered[j].facility_type = Discovered[k].facility_type =>
                        Discovered[k].straight_distance <= Discovered[j].straight_distance)
                   => Returned(Discovered[k])

(***************************************************************************)
(* Properties of the handlers while a collaborator fails.                  *)
(***************************************************************************)
\* the level of a layer, None when the lookup of the layer failed
LevelUnlessFailed(layer, level) == IF layer \in hazard_store THEN None ELSE level

\* the request made its own query of the service and the query failed
QueryFailed(i) == requests[i].query # NoneRec /\ requests[i].query.exit # "break"

\* C22 - If the point-in-polygon lookup of one hazard layer fails during
\* get_location_hazards, the level of that layer is treated as absent (None)
\* and the request still returns a complete assessment computed from the
\* remaining layers: the failure never becomes an error response.
CE_C22_StoreFailureRecovered ==
    \A i \in 1..Len(requests) :
        (Done(i, "get_location_hazards") /\ hazard_store # {}) =>
            /\ requests[i].response.status = 200
            /\ AssessmentFields \subseteq DOMAIN requests[i].response.data
            /\ requests[i].response.data.overall_risk
                 = calculate_risk_score(LevelUnlessFailed("flood", flood_level),
                                        LevelUnlessFailed("landslide", landslide_level),
                                        LevelUnlessFailed("liquefaction", liquefaction_level))

\* the suitability the safety component alone gives, in tenths
SafetyAlone(risk_score) ==
    Round1(IF risk_score >= 750 THEN FracMul(safety_score(risk_score), <<8, 10>>)
                                ELSE safety_score(risk_score))

\* C23 - Starting from an empty cache, when the facility query times out,
\* gets a non-success status, is rate-limited on every attempt or gets an
\* unparsable body, get_location_hazards still returns overall_risk computed
\* from the three hazard levels and a suitability whose accessibility and
\* infrastructure components are 0: the suitability is the safety component
\* alone, times 0.8 when the risk score is at least 75.
Thm_C23_FacilityFailureDegrades ==
    \A i \in 1..Len(requests) :
        (Done(i, "get_location_hazards") /\ QueryFailed(i)) =>
            /\ requests[i].response.status = 200
            /\ requests[i].response.data.overall_risk
                 = calculate_risk_score(flood_level, landslide_level, liquefaction_level)
            /\ requests[i].response.data.suitability.breakdown.accessibility = 0
            /\ requests[i].response.data.suitability.breakdown.infrastructure = 0
            /\ requests[i].response.data.suitability.score
                 = SafetyAlone(requests[i].response.data.overall_risk.score)

\* a request at high risk whose query was rate-limited on both attempts
Wit_C23_FacilityFailureDegrades ==
    \E i \in 1..Len(requests) :
        /\ Done(i, "get_location_hazards")
        /\ QueryFailed(i)
        /\ requests[i].query.exit = "return"
        /\ requests[i].query.posts = max_retries
        /\ requests[i].response.status = 200
        /\ requests[i].response.data.overall_risk.score >= 750
        /\ requests[i].response.data.suitability.score > 0
        /\ requests[i].response.data.suitability.score
             = SafetyAlone(requests[i].response.data.overall_risk.score)

\* C27 - Only results of a successful facility query are cached:
\* get_nearby_facilities writes no cache entry when the facility list is
\* empty, get_location_hazards does not store under the location key the
\* all-zero summary produced when the facility service failed, and so a
\* request served within the lifetime of the entries after the service has
\* recovered is not answered from that all-zero summary.
CE_C27_OnlySuccessfulCached ==
    \A i \in 1..Len(requests) :
        /\ (requests[i].op = "get_nearby_facilities" /\ QueryFailed(i)) =>
               requests[i].stored = {}
        /\ (requests[i].op = "get_location_hazards" /\ QueryFailed(i)) =>
               requests[i].stored = {}
        /\ (Done(i, "get_location_hazards") /\ requests[i].from_cache
              /\ requests[i].service = "break") =>
               requests[i].response # LocationHazardsResponse(EmptySummary)

(***************************************************************************)
(* Properties of the handlers on raw query parameters.                     *)
(***************************************************************************)
\* a parameter that is missing or writes no number
NotNumeric(param) == ~param.present \/ float(param).type # "float"

\* a radius that is given and is no integer, or is zero or negative
BadRadius(param) ==
    param.present /\ (int(param).type # "int" \/ int(param).value <= 0)

InputError(i) ==
    /\ requests[i].params # NoneRec
    /\ \/ NotNumeric(requests[i].params.lat)
       \/ NotNumeric(requests[i].params.lng)
       \/ (requests[i].op = "get_nearby_facilities" /\ BadRadius(requests[i].params.radius))

\* C21 - A get_location_hazards or get_nearby_facilities request whose lat or
\* lng is missing or not numeric, or whose radius is not an integer or is out
\* of range (zero or negative), is rejected with HTTP 400 before any hazard
\* lookup, facility query or cache write is attempted.
CE_C21_InputErrorsRejected ==
    \A i \in 1..Len(requests) :
        (InputError(i) /\ requests[i].pc # "arrived") =>
            /\ requests[i].pc = "done"
            /\ requests[i].response.status = 400
            /\ requests[i].service = ""
            /\ requests[i].query = NoneRec
            /\ requests[i].stored = {}
====
